---- MODULE Spec2Model ----
(***************************************************************************)
(* Model of the PDF-to-PNG email processor: the daemon loop                *)
(* (JobProcessorService.run_daemon), the per-cycle pipeline                *)
(* (JobProcessorService.process_next_email), the ProcessingJob entity and  *)
(* the outer caller (main), and the connection setup of the two mail      *)
(* services (connect, IMAPService.connect_with_backoff).                   *)
(***************************************************************************)
EXTENDS Integers, Sequences, FiniteSets, TLC

\* ------------------------------------------------------------------ bounds
MaxMsgs == 2
MaxParts == 2
MaxPages == 2
MaxClock == 2

\* the largest max_retries a direct call of connect_with_backoff passes
MaxRetries == 3

\* the failed attempts followed in a connect_with_backoff without a limit
MaxAttempts == 7

\* the disconnect() calls made in a row on the two services
MaxDisconnects == 3

\* the words of the stderr text of one ImageMagick run
MaxWords == 2

\* the files the glob of convert_pdf_to_png finds
MaxFiles == 3

\* the tokens of a whitelist pattern and the characters of an address
MaxPattern == 3
MaxAddress == 3

\* the parts parsed_msg.walk() yields for one message
MaxWalk == 2

\* --------------------------------------------------------------- constants
None == "None"
NoTime == 0 - 1
NoJob == [email_message |-> 0]
NoMessage == [uid |-> 0]
\* content of a message the program has not looked at
Unfetched == [unfetched |-> TRUE]

Senders == {"alice@test.com", "spam@evil.com"}
\* addresses on which the configured pattern matches at the first character
PatternMatches == {"alice@test.com"}

PartKinds == {"pdf", "text"}

SeqsUpTo(S, n) == UNION {[1..k -> S] : k \in 0..n}

MessageTypes == [sender : Senders, parts : SeqsUpTo(PartKinds, MaxParts)]

JobStatus == {"PENDING", "PROCESSING", "COMPLETED", "FAILED"}

\* names bound at module level in job_processor.py (imports, logger, class)
JobProcessorGlobals ==
  {"email", "tempfile", "time", "Path", "Configuration", "PDFAttachment",
   "JobStatus", "ProcessingJob", "IMAPService", "PDFConverterService",
   "SMTPService", "WhitelistService", "sanitize_filename", "get_logger",
   "logger", "JobProcessorService"}

Builtins == {"Exception", "KeyboardInterrupt", "BaseException", "NameError",
             "ValueError", "OSError"}

NameResolves(n) == n \in JobProcessorGlobals \cup Builtins

\* direct base class of every exception class the model raises
ExcParent ==
  [c \in {"BaseException", "Exception", "KeyboardInterrupt", "NameError",
          "ValueError", "OSError", "IMAPError", "IMAPConnectionError",
          "IMAPAuthenticationError", "SMTPError", "PDFConversionError"} |->
     CASE c = "BaseException" -> "BaseException"
       [] c = "Exception" -> "BaseException"
       [] c = "KeyboardInterrupt" -> "BaseException"
       [] c = "IMAPConnectionError" -> "IMAPError"
       [] c = "IMAPAuthenticationError" -> "IMAPError"
       [] OTHER -> "Exception"]

RECURSIVE IsInstance(_, _)
IsInstance(e, cls) ==
  IF e = cls THEN TRUE
  ELSE IF e = "BaseException" \/ e \notin DOMAIN ExcParent THEN FALSE
  ELSE IsInstance(ExcParent[e], cls)

\* ------------------------------------------------------------------- state
VARIABLES
  inbox,        \* the mailbox: per uid the message, Unfetched until inspected
  flags,        \* per uid: "unseen", "seen", either with "_deleted" when the
                \* Deleted flag is set, or "expunged"
  marksSeen,    \* whether the server's RFC822 fetch sets the Seen flag
  imapConn,     \* IMAPService.connection is not None
  smtpConn,     \* SMTPService.connection is not None
  pc,           \* position of the single control flow
  messages,     \* process_next_email: fetched list (uids)
  message,      \* process_next_email: messages[0], NoMessage when unset
  job,          \* process_next_email: the ProcessingJob, NoJob when unset
  idx,          \* index of the attachment the render loop is at
  tmpdir,       \* the TemporaryDirectory of the job exists
  events,       \* calls made in the current cycle: <<operation, result>>
  exc,          \* exception in flight / caught as e
  now,          \* wall clock
  ctorArgs,     \* arguments of a direct ProcessingJob(...) construction
  ctorResult,   \* its outcome
  exitStatus,   \* how main ended
  failed,       \* uids whose ProcessingJob ended FAILED during this run
  backoff,      \* the activation of IMAPService.connect_with_backoff
  connLog,      \* the last connect() call: its result and library calls
  smtpAlive,    \* the server still holds the session of smtp_service
  call,         \* the arguments and surroundings of a direct call
  ret,          \* what the direct call returned or raised
  cc_addresses, \* config.cc_addresses
  outbox        \* the mails sendmail accepted in this cycle

vars == <<inbox, flags, marksSeen, imapConn, smtpConn, pc, messages, message,
          job, idx, tmpdir, events, exc, now, ctorArgs, ctorResult,
          exitStatus, failed, backoff, connLog, smtpAlive, call, ret,
          cc_addresses, outbox>>

\* ------------------------------------------------------------ ProcessingJob
post_init(j) ==
  IF j.email_message = 0 THEN "ValueError"
  ELSE IF j.status = "COMPLETED" /\ j.error # None THEN "ValueError"
  ELSE IF j.completed_at # NoTime /\ j.completed_at < j.started_at
    THEN "ValueError"
  ELSE "ok"

ProcessingJob(uid, t) ==
  [email_message |-> uid, pdf_attachments |-> <<>>, png_images |-> <<>>,
   status |-> "PENDING", error |-> None, started_at |-> t,
   completed_at |-> NoTime]

mark_processing(j) == [j EXCEPT !.status = "PROCESSING"]

mark_completed_nostamp(j, t) == [j EXCEPT !.status = "COMPLETED"]

mark_completed(j, t) ==
  [j EXCEPT !.status = "COMPLETED", !.completed_at = t]

mark_failed(j, e, t) ==
  [j EXCEPT !.status = "FAILED", !.error = e, !.completed_at = t]

CtorArgs ==
  [email_message : 0..1, status : JobStatus,
   error : {None, "RuntimeError"}, started_at : 0..1,
   completed_at : {NoTime} \cup 0..1]

\* ---------------------------------------------------------------- services
is_whitelisted(addr) ==
  IF addr = "" THEN FALSE ELSE addr \in PatternMatches

RECURSIVE ExtractFrom(_, _)
ExtractFrom(parts, i) ==
  IF i > Len(parts) THEN <<>>
  ELSE IF parts[i] = "pdf"
    THEN <<[part |-> i, page_count |-> 0]>> \o ExtractFrom(parts, i + 1)
  ELSE ExtractFrom(parts, i + 1)

extract_pdf_attachments(m) == ExtractFrom(m.parts, 1)

DeleteResults == {"ok", "store_failed", "expunge_failed"}

\* the flag values of a message without the Seen flag / with the Deleted flag
IsUnseen(f) == f \in {"unseen", "unseen_deleted"}

IsDeleted(f) == f \in {"unseen_deleted", "seen_deleted"}

\* store(uid, "+FLAGS", "(\Deleted)")
StoreDeleted(f) ==
  IF f = "unseen" THEN "unseen_deleted"
  ELSE IF f = "seen" THEN "seen_deleted"
  ELSE f

\* the implicit Seen flag of a fetch of the whole message
StoreSeen(f) ==
  IF f = "unseen" THEN "seen"
  ELSE IF f = "unseen_deleted" THEN "seen_deleted"
  ELSE f

\* expunge(): every message carrying the Deleted flag is removed
Expunge(fl) ==
  [u \in DOMAIN fl |-> IF IsDeleted(fl[u]) THEN "expunged" ELSE fl[u]]

\* IMAPService.delete_message: store +FLAGS \Deleted, then expunge
delete_message(fl, uid, r) ==
  IF r = "store_failed" THEN fl
  ELSE IF r = "expunge_failed" THEN [fl EXCEPT ![uid] = StoreDeleted(@)]
  ELSE Expunge([fl EXCEPT ![uid] = StoreDeleted(@)])

DeleteOutcome(r) == IF r = "ok" THEN "ok" ELSE "IMAPError"

RECURSIVE UnseenFrom(_, _)
UnseenFrom(fl, u) ==
  IF u > Len(fl) THEN <<>>
  ELSE IF IsUnseen(fl[u]) THEN <<u>> \o UnseenFrom(fl, u + 1)
  ELSE UnseenFrom(fl, u + 1)

\* flags after the first k messages of the list were fetched with (RFC822)
FetchedFlags(fl, list, k, seen) ==
  [u \in DOMAIN fl |->
     IF seen /\ \E i \in 1..k : list[i] = u THEN StoreSeen(fl[u])
     ELSE fl[u]]

\* the mailbox no longer holds the content of an expunged message
Forget(ib, fl) ==
  [u \in DOMAIN ib |-> IF fl[u] = "expunged" THEN Unfetched ELSE ib[u]]

\* EmailMessage(uid=..., sender=..., raw_bytes=...)
EmailMessage(uid, m) == [uid |-> uid, sender |-> m.sender, parts |-> m.parts]

Log(op, r) == Append(events, <<op, r>>)

\* the log holds the entry e / the positions of the calls of op in the log
Has(e) == \E i \in DOMAIN events : events[i] = e

Called(op) == {i \in DOMAIN events : events[i][1] = op}

\* outcomes of staging one PDF and converting it: an error raised by
\* write_bytes or convert_pdf_to_png, or the list of pages (at least one)
RenderResults ==
  {[result |-> e, pages |-> 0] : e \in {"OSError", "PDFConversionError"}}
    \cup {[result |-> "ok", pages |-> n] : n \in 1..MaxPages}

Pages(a, n) == [p \in 1..n |-> [source |-> a, page_number |-> p]]

\* ------------------------------------------------------------------ connect
\* the text of a library error, cut into the fragments a search can hit
Lower(f) ==
  CASE f = "AUTHENTICATION" -> "authentication"
    [] f = "Password" -> "password"
    [] f = "ENCRYPTED" -> "encrypted"
    [] f = "Corrupt" -> "corrupt"
    [] f = "Invalid" -> "invalid"
    [] f = "Error" -> "error"
    [] f = ".PDF" -> ".pdf"
    [] f = "LOGIN" -> "login"
    [] f = "FAILED" -> "failed"
    [] OTHER -> f

\* kw in str(e).lower()
Contains(text, kw) == \E i \in DOMAIN text : Lower(text[i]) = kw

\* what a library call does: it returns, or raises an exception of a kind;
\* rejected tells whether the server refused the credentials
Returned == [kind |-> "ok", rejected |-> FALSE, text |-> <<>>]

Raised(k) == [kind |-> k, rejected |-> FALSE, text |-> <<k>>]

\* imaplib.IMAP4.login: a NO reply is raised as IMAP4.error(server text)
ImapLoginOutcomes ==
  { Returned, Raised("OSError"),
    [kind |-> "IMAP4.error", rejected |-> TRUE,
     text |-> <<"[", "AUTHENTICATION", "FAILED", "] invalid credentials">>],
    [kind |-> "IMAP4.error", rejected |-> TRUE,
     text |-> <<"LOGIN", " failed">>],
    [kind |-> "IMAP4.error", rejected |-> TRUE,
     text |-> <<"invalid username or password">>],
    [kind |-> "IMAP4.error", rejected |-> FALSE,
     text |-> <<"command illegal in state NONAUTH">>] }

\* smtplib.SMTP.login: refused credentials are SMTPAuthenticationError
SmtpLoginOutcomes ==
  { Returned, Raised("OSError"), Raised("SMTPException"),
    [kind |-> "SMTPAuthenticationError", rejected |-> TRUE,
     text |-> <<"535 invalid credentials">>] }

\* one connect() call as the outcomes of the library calls it may make; a
\* session that could not be opened has no starttls or login outcome of its
\* own, so these are fixed for it
Scenarios(logins) ==
  {sc \in [open1 : {"ok", "SSLError", "OSError"}, login1 : logins,
           open2 : {"ok", "OSError"}, starttls : {"ok", "error"},
           login2 : logins] :
     /\ sc.open1 # "ok" => sc.login1 = Returned
     /\ sc.open2 # "ok" => (sc.starttls = "ok" /\ sc.login2 = Returned)}

ImapScenarios == Scenarios(ImapLoginOutcomes)

SmtpScenarios == Scenarios(SmtpLoginOutcomes)

\* how a login call shows in the log of a connect() call
LoginStatus(o) == IF o.rejected THEN "rejected" ELSE o.kind

\* the library calls of the first tier and of the second tier
Tier1(ctor, sc) ==
  <<<<ctor, sc.open1>>>> \o
  (IF sc.open1 = "ok" THEN <<<<"login", LoginStatus(sc.login1)>>>> ELSE <<>>)

Tier2(ctor, sc) ==
  <<<<ctor, sc.open2>>>> \o
  (IF sc.open2 = "ok"
   THEN <<<<"starttls", sc.starttls>>, <<"login", LoginStatus(sc.login2)>>>>
   ELSE <<>>)

\* "authentication" in str(e).lower() or "login" in str(e).lower()
is_auth_text(o) ==
  /\ o.kind = "IMAP4.error"
  /\ Contains(o.text, "authentication") \/ Contains(o.text, "login")

\* IMAPService.connect
imap_connect(sc) ==
  LET t1 == Tier1("IMAP4_SSL", sc)
      t2 == Tier2("IMAP4", sc)
  IN
  IF sc.open1 = "ok" /\ sc.login1 = Returned
  THEN [service |-> "imap", result |-> "ok", log |-> t1]
  ELSE IF sc.open1 = "ok" /\ is_auth_text(sc.login1)
  THEN [service |-> "imap", result |-> "IMAPAuthenticationError", log |-> t1]
  ELSE IF sc.open2 = "ok" /\ sc.login2 = Returned
  THEN [service |-> "imap", result |-> "ok", log |-> t1 \o t2]
  ELSE IF sc.open2 = "ok" /\ is_auth_text(sc.login2)
  THEN [service |-> "imap", result |-> "IMAPAuthenticationError",
        log |-> t1 \o t2]
  ELSE [service |-> "imap", result |-> "IMAPConnectionError",
        log |-> t1 \o t2]

\* SMTPService.connect
smtp_connect(sc) ==
  LET t1 == Tier1("SMTP_SSL", sc)
      t2 == Tier2("SMTP", sc)
  IN
  IF sc.open1 = "ok" /\ sc.login1 = Returned
  THEN [service |-> "smtp", result |-> "ok", log |-> t1]
  ELSE IF sc.open1 = "ok" /\ sc.login1.kind = "SMTPAuthenticationError"
  THEN [service |-> "smtp", result |-> "SMTPAuthenticationError", log |-> t1]
  ELSE IF sc.open2 = "ok" /\ sc.login2 = Returned
  THEN [service |-> "smtp", result |-> "ok", log |-> t1 \o t2]
  ELSE IF sc.open2 = "ok" /\ sc.login2.kind = "SMTPAuthenticationError"
  THEN [service |-> "smtp", result |-> "SMTPAuthenticationError",
        log |-> t1 \o t2]
  ELSE [service |-> "smtp", result |-> "SMTPConnectionError",
        log |-> t1 \o t2]

\* self.connection is not None after the call
Assigned(c) ==
  \E i \in DOMAIN c.log :
    /\ c.log[i][1] \in {"IMAP4_SSL", "IMAP4", "SMTP_SSL", "SMTP"}
    /\ c.log[i][2] = "ok"

\* no connect() call has been made
NoConnect == [service |-> "none", result |-> "none", log |-> <<>>]

\* --------------------------------------------------------------- disconnect
\* what the calls on the session do: all return, or one of them raises
SessionOutcomes ==
  [imap |-> {"ok", "close", "logout"}, smtp |-> {"ok", "quit"}]

\* the library calls disconnect makes on an existing session
SessionCalls(svc, o) ==
  IF svc = "smtp"
  THEN <<<<"quit", IF o = "quit" THEN "OSError" ELSE "ok">>>>
  ELSE IF o = "close"
  THEN <<<<"close", "OSError">>>>
  ELSE <<<<"close", "ok">>,
         <<"logout", IF o = "logout" THEN "OSError" ELSE "ok">>>>

disconnect_nofinally(svc, conn, o) ==
  IF ~conn
  THEN [calls |-> <<>>, raised |-> None, connection |-> FALSE]
  ELSE [calls |-> SessionCalls(svc, o), raised |-> None,
        connection |-> (o # "ok")]

\* IMAPService.disconnect / SMTPService.disconnect: if self.connection:
\* try: close(); logout() (or quit()) / except Exception: pass /
\* finally: self.connection = None
disconnect(svc, conn, o) ==
  IF ~conn
  THEN [calls |-> <<>>, raised |-> None, connection |-> FALSE]
  ELSE [calls |-> SessionCalls(svc, o),
        raised |-> IF o = "ok" \/ IsInstance("OSError", "Exception")
                   THEN None ELSE "OSError",
        connection |-> FALSE]

\* ----------------------------------------------------- connect_with_backoff
\* max_retries=None
Unlimited == 0 - 1

base_delay == 60

\* the values of config.max_retry_interval_seconds
Ceilings == {30, 100, 900}

RECURSIVE Pow2(_)
Pow2(n) == IF n = 0 THEN 1 ELSE 2 * Pow2(n - 1)

Min(a, b) == IF a <= b THEN a ELSE b

backoff_delay_uncapped(attempt, max_delay) == base_delay * Pow2(attempt - 1)

\* delay = min(base_delay * (2 ** (attempt - 1)), max_delay)
backoff_delay(attempt, max_delay) ==
  Min(base_delay * Pow2(attempt - 1), max_delay)

may_attempt_inclusive(max_retries, attempt) ==
  max_retries = Unlimited \/ attempt <= max_retries

\* while max_retries is None or attempt < max_retries
may_attempt(max_retries, attempt) ==
  max_retries = Unlimited \/ attempt < max_retries

on_connect_error_retry(result) == "retry"

\* except IMAPAuthenticationError: raise / except IMAPConnectionError: the
\* attempt is counted and slept on, and the loop goes on
on_connect_error(result) ==
  IF result = "IMAPAuthenticationError" THEN "raise" ELSE "retry"

\* the locals of connect_with_backoff on entry, with what the call has done
Entered(caller, max_retries, max_delay) ==
  [caller |-> caller, max_retries |-> max_retries, max_delay |-> max_delay,
   attempt |-> 0, calls |-> 0, delays |-> <<>>, result |-> "running"]

\* no connect_with_backoff call is active
NoBackoff ==
  [caller |-> "none", max_retries |-> Unlimited, max_delay |-> 0,
   attempt |-> 0, calls |-> 0, delays |-> <<>>, result |-> "none"]

\* ------------------------------------------------------- convert_pdf_to_png
NoCall == [op |-> "none"]
NoRet == [result |-> "none"]

\* result.stderr: the words ImageMagick wrote, in the case it wrote them
StderrWords ==
  {"Password", "ENCRYPTED", "Corrupt", "Invalid", "Error", "unable"}

\* subprocess.run(cmd, ..., timeout=self.timeout, check=False): it raises, or
\* returns a CompletedProcess with returncode and stderr
ProcessStates ==
  {[run |-> r, returncode |-> 0, stderr |-> <<>>] :
     r \in {"TimeoutExpired", "FileNotFoundError", "PermissionError"}}
  \cup {[run |-> "completed", returncode |-> c, stderr |-> t] :
          c \in {0, 1}, t \in SeqsUpTo(StderrWords, MaxWords)}

\* the digits between "{output_prefix}_pdf-" and ".png" in the names of the
\* files of temp_dir that match the glob: magick's %03d names and others
Suffixes == {<<0, 0, 0>>, <<0, 0, 1>>, <<0, 1, 0>>, <<1>>, <<1, 0>>, <<2>>}

\* temp_dir after the run: the matching files, and those of size 0
DirStates ==
  UNION {{[files |-> F, empty |-> E] :
            E \in {X \in SUBSET F : Cardinality(X) <= 1}} :
         F \in {X \in SUBSET Suffixes : Cardinality(X) <= MaxFiles}}

\* png_path.name from the suffix on, as code points: the digits, then the "."
\* of ".png" (the rest is the same in every name)
Name(suffix) ==
  [i \in 1..(Len(suffix) + 1) |->
     IF i <= Len(suffix) THEN 48 + suffix[i] ELSE 46]

\* a < b on str
StrLess(a, b) ==
  \E k \in 1..(Len(a) + 1) :
    /\ k - 1 <= Len(b)
    /\ \A i \in 1..(k - 1) : a[i] = b[i]
    /\ IF k = Len(a) + 1 THEN Len(b) >= k
       ELSE k <= Len(b) /\ a[k] < b[k]

\* sorted(temp_dir.glob(...)): the paths share temp_dir, the names decide
RECURSIVE sorted(_)
sorted(files) ==
  IF files = {} THEN <<>>
  ELSE LET first == CHOOSE x \in files :
                      \A y \in files \ {x} : StrLess(Name(x), Name(y))
       IN <<first>> \o sorted(files \ {first})

\* the classification of a non-zero exit by result.stderr.lower()
classify_corruption_first(stderr) ==
  IF Contains(stderr, "corrupt") \/ Contains(stderr, "invalid")
     \/ Contains(stderr, "error")
  THEN "PDFCorruptedError"
  ELSE IF Contains(stderr, "password") \/ Contains(stderr, "encrypted")
  THEN "PDFPasswordProtectedError"
  ELSE "PDFConversionError"

classify(stderr) ==
  IF Contains(stderr, "password") \/ Contains(stderr, "encrypted")
  THEN "PDFPasswordProtectedError"
  ELSE IF Contains(stderr, "corrupt") \/ Contains(stderr, "invalid")
          \/ Contains(stderr, "error")
  THEN "PDFCorruptedError"
  ELSE "PDFConversionError"

\* for idx, png_path in enumerate(png_files, start=1): page_number = idx
enumerate_from_zero(png_files) ==
  [i \in 1..Len(png_files) |->
     [filename |-> png_files[i], page_number |-> i - 1]]

enumerate(png_files) ==
  [i \in 1..Len(png_files) |->
     [filename |-> png_files[i], page_number |-> i]]

\* an exception leaves convert_pdf_to_png; text is the stderr in its message
ConvertRaised(e, ran, stderr) ==
  [result |-> e, pages |-> <<>>, invoked |-> ran, text |-> stderr]

\* what follows subprocess.run in convert_pdf_to_png
after_run(c) ==
  IF c.proc.run = "TimeoutExpired" \/ c.proc.run = "FileNotFoundError"
  THEN ConvertRaised("PDFConversionError", TRUE, <<>>)
  ELSE IF c.proc.run # "completed" THEN ConvertRaised(c.proc.run, TRUE, <<>>)
  ELSE IF c.proc.returncode # 0
  THEN ConvertRaised(classify(c.proc.stderr), TRUE, c.proc.stderr)
  ELSE LET png_files == sorted(c.dir.files) IN
       IF png_files = <<>>
       THEN ConvertRaised("PDFConversionError", TRUE, <<>>)
       ELSE IF \E i \in DOMAIN png_files : png_files[i] \in c.dir.empty
       THEN ConvertRaised("ValueError", TRUE, <<>>)
       ELSE [result |-> "ok", pages |-> enumerate(png_files),
             invoked |-> TRUE, text |-> <<>>]

convert_pdf_to_png_unchecked(c) == after_run(c)

convert_pdf_to_png(c) ==
  IF ~c.exists THEN ConvertRaised("PDFConversionError", FALSE, <<>>)
  ELSE after_run(c)

\* ------------------------------------------- process_next_email: the staging
\* attachment filenames of one message
Filenames == {"a.pdf", "a!.pdf", "b.pdf", "a_pdf-x.pdf"}

\* sanitize_filename: the extension is cut, what is not alphanumeric, "_" or
\* "-" becomes "_", and the "_" at the ends are stripped; the result is given
\* in pieces so that the piece "_pdf-" can be searched
sanitize_filename(filename) ==
  CASE filename = "a.pdf" -> <<"a">>
    [] filename = "a!.pdf" -> <<"a">>
    [] filename = "b.pdf" -> <<"b">>
    [] filename = "a_pdf-x.pdf" -> <<"a", "_pdf-", "x">>

\* %03d of the output pattern, for the page index from 0 on
Pad3(k) == <<"000", "001", "002", "003">>[k + 1]

\* the files magick writes for a PDF of n pages: {prefix}_pdf-%03d.png
OutputFiles(output_prefix, n) ==
  {output_prefix \o <<"_pdf-", Pad3(k)>> : k \in 0..(n - 1)}

\* temp_dir.glob(f"{output_prefix}_pdf-*.png")
glob(dir, output_prefix) ==
  {f \in dir :
     /\ Len(f) > Len(output_prefix) + 1
     /\ SubSeq(f, 1, Len(output_prefix) + 1) = output_prefix \o <<"_pdf-">>}

\* the attachments of a job: the filename and the pages of the PDF
Attachments ==
  SeqsUpTo([filename : Filenames, pages : 1..MaxPages], MaxParts)

\* -------------------------------------------------- _extract_pdf_attachments
\* the largest size_bytes PDFAttachment accepts: 100 * 1024 * 1024
SizeLimit == 104857600

\* one part of the parsed message: its content disposition, the end of its
\* filename ("" when it has none) and the length of its decoded payload
WalkParts ==
  [disposition : {"attachment", "inline", "none"},
   extension : {".pdf", ".PDF", ".txt", ""},
   size : {0, 1, SizeLimit + 1}]

\* filename and filename.lower().endswith(".pdf"), case not folded
is_pdf_name_cased(part) == part.extension = ".pdf"

is_pdf_name(part) == Lower(part.extension) = ".pdf"

\* PDFAttachment.__post_init__ for a part that was selected
PDFAttachment(part) ==
  IF ~is_pdf_name(part) \/ part.size <= 0 \/ part.size > SizeLimit
  THEN "ValueError" ELSE "ok"

\* the loop over parsed_msg.walk() from part i on, with the list so far
RECURSIVE WalkFrom(_, _, _)
WalkFrom(parts, i, pdf_attachments) ==
  IF i > Len(parts)
  THEN [result |-> "ok", pdf_attachments |-> pdf_attachments]
  ELSE IF /\ parts[i].disposition = "attachment"
          /\ is_pdf_name(parts[i])
          /\ parts[i].size # 0
  THEN IF PDFAttachment(parts[i]) # "ok"
       THEN [result |-> PDFAttachment(parts[i]), pdf_attachments |-> <<>>]
       ELSE WalkFrom(parts, i + 1,
                     Append(pdf_attachments,
                            [part |-> i, size_bytes |-> parts[i].size]))
  ELSE WalkFrom(parts, i + 1, pdf_attachments)

\* JobProcessorService._extract_pdf_attachments on the parts of a message
ExtractPdfAttachments(parts) == WalkFrom(parts, 1, <<>>)

\* ---------------------------------------------------- fetch_unseen_messages
\* what the server and the parser do with one uid of the search result: the
\* fetch answers OK with a message that parses, or answers NO, or the fetch
\* call raises, or EmailMessage(...) rejects what was parsed
UidOutcomes == {"OK", "NO", "abort", "ValueError"}

\* the session as fetch_unseen_messages finds it
FetchArgs ==
  [connection : BOOLEAN,
   select : {"OK", "NO"},
   search : {"OK", "NO", "abort"},
   uids : SeqsUpTo(UidOutcomes, MaxMsgs)]

\* status of "status, msg_data = self.connection.fetch(uid, ...)"
fetch_status(outcome) == IF outcome = "ValueError" THEN "OK" ELSE outcome

\* if status != "OK": logged, continue
on_fetch_status_raise(status) == IF status = "OK" THEN "parse" ELSE "raise"

on_fetch_status(status) == IF status = "OK" THEN "parse" ELSE "continue"

\* "for uid in uid_list" from position i on, with the list built so far; an
\* exception leaves the loop
RECURSIVE FetchFrom(_, _, _)
FetchFrom(uids, i, msgs) ==
  IF i > Len(uids) THEN [result |-> "ok", messages |-> msgs]
  ELSE IF uids[i] = "abort" THEN [result |-> "abort", messages |-> <<>>]
  ELSE IF on_fetch_status(fetch_status(uids[i])) = "raise"
  THEN [result |-> "abort", messages |-> <<>>]
  ELSE IF on_fetch_status(fetch_status(uids[i])) = "continue"
  THEN FetchFrom(uids, i + 1, msgs)
  ELSE IF uids[i] = "ValueError"
  THEN [result |-> "ValueError", messages |-> <<>>]
  ELSE FetchFrom(uids, i + 1, Append(msgs, i))

\* the body of the try: select (its answer is not looked at, but a SEARCH in a
\* session without a selected mailbox raises), search, the loop
fetch_try(c) ==
  IF c.select # "OK" \/ c.search = "abort"
  THEN [result |-> "abort", messages |-> <<>>]
  ELSE IF c.search # "OK" THEN [result |-> "IMAPError", messages |-> <<>>]
  ELSE FetchFrom(c.uids, 1, <<>>)

\* IMAPService.fetch_unseen_messages: except Exception -> IMAPError
fetch_unseen_messages(c) ==
  IF ~c.connection THEN [result |-> "IMAPError", messages |-> <<>>]
  ELSE IF fetch_try(c).result # "ok"
  THEN [result |-> "IMAPError", messages |-> <<>>]
  ELSE fetch_try(c)

\* --------------------------------------------------------- WhitelistService
\* the characters of an address, and the tokens of a pattern: a character,
\* "." for any character, "*" for any number of the token before it
AddressChars == {"a", "b"}
PatternTokens == AddressChars \cup {".", "*"}

\* re.compile(regex_pattern) raises re.error: a "*" with nothing to repeat,
\* or a repeat of a repeat
re_error(pattern) ==
  \E i \in DOMAIN pattern :
    pattern[i] = "*" /\ (i = 1 \/ pattern[i - 1] = "*")

\* one token of the pattern against one character
TokenMatches(t, ch) == t = "." \/ t = ch

\* the pattern from token i on matches the address from character j on, up to
\* some character: the matcher tries the alternatives of each "*" in turn
RECURSIVE MatchesFrom(_, _, _, _)
MatchesFrom(pattern, i, address, j) ==
  IF i > Len(pattern) THEN TRUE
  ELSE IF i + 1 <= Len(pattern) /\ pattern[i + 1] = "*"
  THEN \/ MatchesFrom(pattern, i + 2, address, j)
       \/ /\ j <= Len(address)
          /\ TokenMatches(pattern[i], address[j])
          /\ MatchesFrom(pattern, i, address, j + 1)
  ELSE /\ j <= Len(address)
       /\ TokenMatches(pattern[i], address[j])
       /\ MatchesFrom(pattern, i + 1, address, j + 1)

\* self.compiled_pattern.match(email_address) is not None
re_search(pattern, address) ==
  \E j \in 1..(Len(address) + 1) : MatchesFrom(pattern, 1, address, j)

re_match(pattern, address) == MatchesFrom(pattern, 1, address, 1)

\* WhitelistService.__init__: re.error becomes ValueError
WhitelistService(pattern) ==
  IF re_error(pattern) THEN [result |-> "ValueError"]
  ELSE [result |-> "ok"]

\* WhitelistService.is_whitelisted on a service that was constructed
WhitelistService_is_whitelisted(pattern, email_address) ==
  IF email_address = <<>> THEN [result |-> "False"]
  ELSE IF re_match(pattern, email_address) THEN [result |-> "True"]
  ELSE [result |-> "False"]

\* ------------------------------------------------------------ Configuration
\* the fields of the dataclass Configuration
ConfigurationFields ==
  {"imap_host", "imap_port", "imap_username", "imap_password", "smtp_host",
   "smtp_port", "smtp_username", "smtp_password", "sender_whitelist_regex",
   "_compiled_whitelist", "cc_addresses", "polling_interval_seconds",
   "max_retry_interval_seconds"}

\* the attributes PDFConverterService.__init__ reads from a config
ConverterReads ==
  {"pdf_resolution_width", "pdf_resolution_height", "pdf_density_dpi",
   "pdf_background", "pdf_conversion_timeout_seconds"}

\* the values given for the fields: blank holds the required string fields
\* that are empty, regex_ok tells whether re.compile accepts the whitelist
ConfigArgs ==
  [blank : {{}, {"imap_host"}, {"sender_whitelist_regex"}},
   imap_port : {0, 993, 65535},
   smtp_port : {1, 587, 65536},
   regex_ok : BOOLEAN,
   polling_interval_seconds : {9, 10, 60, 900},
   max_retry_interval_seconds : {9, 10, 59, 60, 900}]

ConfigRaised(field) == [result |-> "ValueError", field |-> field]

\* Configuration._validate: the first check that fails raises
validate_strict_ceiling(a) ==
  IF a.blank # {} THEN ConfigRaised("required")
  ELSE IF ~(1 <= a.imap_port /\ a.imap_port <= 65535)
  THEN ConfigRaised("imap_port")
  ELSE IF ~(1 <= a.smtp_port /\ a.smtp_port <= 65535)
  THEN ConfigRaised("smtp_port")
  ELSE IF a.polling_interval_seconds < 10
  THEN ConfigRaised("polling_interval_seconds")
  ELSE IF a.max_retry_interval_seconds <= a.polling_interval_seconds
  THEN ConfigRaised("max_retry_interval_seconds")
  ELSE [result |-> "ok", field |-> "none"]

validate(a) ==
  IF a.blank # {} THEN ConfigRaised("required")
  ELSE IF ~(1 <= a.imap_port /\ a.imap_port <= 65535)
  THEN ConfigRaised("imap_port")
  ELSE IF ~(1 <= a.smtp_port /\ a.smtp_port <= 65535)
  THEN ConfigRaised("smtp_port")
  ELSE IF a.polling_interval_seconds < 10
  THEN ConfigRaised("polling_interval_seconds")
  ELSE IF a.max_retry_interval_seconds < a.polling_interval_seconds
  THEN ConfigRaised("max_retry_interval_seconds")
  ELSE [result |-> "ok", field |-> "none"]

\* Configuration(...): __post_init__ validates, then compiles the whitelist
Configuration(a) ==
  IF validate(a).result # "ok" THEN validate(a)
  ELSE IF ~a.regex_ok THEN ConfigRaised("sender_whitelist_regex")
  ELSE [result |-> "ok", field |-> "none"]

\* os.environ: the variables as ConfigArgs, blank holding the required ones
\* that are unset or empty, numeric telling whether int() parses the numbers
EnvStates == [vars : ConfigArgs, numeric : BOOLEAN]

\* Configuration.from_env
from_env(env) ==
  IF env.vars.blank # {} THEN ConfigRaised("required")
  ELSE IF ~env.numeric THEN ConfigRaised("int")
  ELSE Configuration(env.vars)

\* ------------------------------------------------------------- SMTPService
\* the values of CC_ADDRESSES: no copy recipient, or one
CcLists == {<<>>, <<"boss@test.com">>}

\* what send_reply_with_attachments hands to sendmail: the headers, the
\* envelope recipients and the attached pages
send_reply_to_sender_only(to_address, attachments, cc) ==
  [kind |-> "reply", to |-> to_address, cc_header |-> cc,
   recipients |-> <<to_address>>, attachments |-> attachments]

send_reply_with_attachments(to_address, attachments, cc) ==
  [kind |-> "reply", to |-> to_address, cc_header |-> cc,
   recipients |-> <<to_address>> \o cc, attachments |-> attachments]

\* what send_error_notification hands to sendmail
send_error_notification(to_address) ==
  [kind |-> "error", to |-> to_address, cc_header |-> <<>>,
   recipients |-> <<to_address>>, attachments |-> <<>>]

\* --------------------------------------------------------------------- Init
\* main with its services constructed, about to connect (main.py line 58 on);
\* the mailbox is given, the ceiling of the backoff comes from the config
ProgramInit ==
  /\ inbox \in SeqsUpTo({Unfetched}, MaxMsgs)
  /\ flags = [u \in 1..Len(inbox) |-> "unseen"]
  /\ marksSeen \in BOOLEAN
  /\ imapConn = FALSE
  /\ smtpConn = FALSE
  /\ pc = "connect_with_backoff"
  /\ \E d \in Ceilings : backoff = Entered("main", Unlimited, d)
  /\ ctorArgs = None
  /\ call = NoCall
  /\ cc_addresses \in CcLists

\* a ProcessingJob constructed directly with explicit field values
ConstructInit ==
  /\ inbox = <<>>
  /\ flags = <<>>
  /\ marksSeen = FALSE
  /\ imapConn = FALSE
  /\ smtpConn = FALSE
  /\ pc = "construct"
  /\ backoff = NoBackoff
  /\ ctorArgs \in CtorArgs
  /\ call = NoCall
  /\ cc_addresses = <<>>

\* connect_with_backoff called directly with an explicit max_retries
BackoffInit ==
  /\ inbox = <<>>
  /\ flags = <<>>
  /\ marksSeen = FALSE
  /\ imapConn = FALSE
  /\ smtpConn = FALSE
  /\ pc = "connect_with_backoff"
  /\ \E n \in {Unlimited} \cup 0..MaxRetries : \E d \in Ceilings :
       backoff = Entered("call", n, d)
  /\ ctorArgs = None
  /\ call = NoCall
  /\ cc_addresses = <<>>

\* disconnect called on services with or without a session
DisconnectInit ==
  /\ inbox = <<>>
  /\ flags = <<>>
  /\ marksSeen = FALSE
  /\ imapConn \in BOOLEAN
  /\ smtpConn \in BOOLEAN
  /\ pc = "disconnect"
  /\ backoff = NoBackoff
  /\ ctorArgs = None
  /\ call = NoCall
  /\ cc_addresses = <<>>

\* convert_pdf_to_png called on a converter with the default settings
ConvertInit ==
  /\ inbox = <<>>
  /\ flags = <<>>
  /\ marksSeen = FALSE
  /\ imapConn = FALSE
  /\ smtpConn = FALSE
  /\ pc = "convert_pdf_to_png"
  /\ backoff = NoBackoff
  /\ ctorArgs = None
  /\ \E e \in BOOLEAN : \E p \in ProcessStates : \E d \in DirStates :
       call = [op |-> "convert_pdf_to_png", exists |-> e, proc |-> p,
               dir |-> d]
  /\ cc_addresses = <<>>

\* Configuration constructed directly with explicit field values
ConfigurationInit ==
  /\ inbox = <<>>
  /\ flags = <<>>
  /\ marksSeen = FALSE
  /\ imapConn = FALSE
  /\ smtpConn = FALSE
  /\ pc = "Configuration"
  /\ backoff = NoBackoff
  /\ ctorArgs = None
  /\ \E a \in ConfigArgs : call = [op |-> "Configuration", args |-> a]
  /\ cc_addresses = <<>>

\* the process starts: main() with some environment
MainInit ==
  /\ inbox = <<>>
  /\ flags = <<>>
  /\ marksSeen = FALSE
  /\ imapConn = FALSE
  /\ smtpConn = FALSE
  /\ pc = "load_config"
  /\ backoff = NoBackoff
  /\ ctorArgs = None
  /\ \E env \in EnvStates : call = [op |-> "main", args |-> env]
  /\ cc_addresses = <<>>

\* a WhitelistService is constructed for a pattern and asked about an address
WhitelistInit ==
  /\ inbox = <<>>
  /\ flags = <<>>
  /\ marksSeen = FALSE
  /\ imapConn = FALSE
  /\ smtpConn = FALSE
  /\ pc = "WhitelistService"
  /\ backoff = NoBackoff
  /\ ctorArgs = None
  /\ \E pattern \in SeqsUpTo(PatternTokens, MaxPattern) :
       \E address \in SeqsUpTo(AddressChars, MaxAddress) :
         call = [op |-> "WhitelistService", regex_pattern |-> pattern,
                 email_address |-> address]
  /\ cc_addresses = <<>>

\* the with-block of process_next_email is entered for the attachments of a
\* job, every conversion of which succeeds: the temporary directory is empty
StageInit ==
  /\ inbox = <<>>
  /\ flags = <<>>
  /\ marksSeen = FALSE
  /\ imapConn = FALSE
  /\ smtpConn = FALSE
  /\ pc = "stage"
  /\ backoff = NoBackoff
  /\ ctorArgs = None
  /\ \E a \in Attachments : call = [op |-> "stage", pdf_attachments |-> a]
  /\ cc_addresses = <<>>

\* _extract_pdf_attachments called on a message with some parts
ExtractInit ==
  /\ inbox = <<>>
  /\ flags = <<>>
  /\ marksSeen = FALSE
  /\ imapConn = FALSE
  /\ smtpConn = FALSE
  /\ pc = "extract_pdf_attachments"
  /\ backoff = NoBackoff
  /\ ctorArgs = None
  /\ cc_addresses = <<>>
  /\ \E parts \in SeqsUpTo(WalkParts, MaxWalk) :
       call = [op |-> "extract_pdf_attachments", parts |-> parts]

\* fetch_unseen_messages called on a service with or without a session
FetchInit ==
  /\ inbox = <<>>
  /\ flags = <<>>
  /\ marksSeen = FALSE
  /\ imapConn = FALSE
  /\ smtpConn = FALSE
  /\ pc = "fetch_unseen_messages"
  /\ backoff = NoBackoff
  /\ ctorArgs = None
  /\ cc_addresses = <<>>
  /\ \E a \in FetchArgs :
       call = [op |-> "fetch_unseen_messages", connection |-> a.connection,
               select |-> a.select, search |-> a.search, uids |-> a.uids]

Init ==
  /\ \/ ProgramInit
     \/ ConstructInit
     \/ BackoffInit
     \/ DisconnectInit
     \/ ConvertInit
     \/ ConfigurationInit
     \/ MainInit
     \/ WhitelistInit
     \/ StageInit
     \/ ExtractInit
     \/ FetchInit
  /\ messages = <<>>
  /\ message = NoMessage
  /\ job = NoJob
  /\ idx = 0
  /\ tmpdir = FALSE
  /\ events = <<>>
  /\ exc = None
  /\ now = 0
  /\ ctorResult = None
  /\ exitStatus = None
  /\ failed = {}
  /\ connLog = NoConnect
  /\ smtpAlive = FALSE
  /\ ret = NoRet
  /\ outbox = <<>>

\* ----------------------------------------------------------- main: startup
ExitOnError_swallow(result, next) == next

\* main: try: <connect> / except Exception: logged, sys.exit(1)
ExitOnError(result, next) == IF result = "ok" THEN next ELSE "exited"

\* connect_with_backoff returned or raised: control is back in its caller
Leave(result) ==
  /\ pc' = IF backoff.caller = "main"
           THEN ExitOnError(result, "smtp_connect")
           ELSE "returned_to_caller"
  /\ exitStatus' = IF pc' = "exited" THEN "sys.exit(1)" ELSE exitStatus

\* IMAPService.connect_with_backoff: one evaluation of the loop condition and
\* one pass of the loop body (connect, and on a connection error the sleep)
ConnectWithBackoff ==
  /\ pc = "connect_with_backoff"
  /\ IF may_attempt(backoff.max_retries, backoff.attempt)
     THEN \E sc \in ImapScenarios :
            LET c == imap_connect(sc)
                h == IF c.result = "ok" THEN "return"
                     ELSE on_connect_error(c.result)
                n == backoff.attempt + 1
            IN
            /\ connLog' = c
            /\ imapConn' = (imapConn \/ Assigned(c))
            /\ IF h = "retry"
               THEN /\ backoff.attempt < MaxAttempts
                    /\ backoff' =
                         [backoff EXCEPT
                            !.attempt = n, !.calls = @ + 1,
                            !.delays =
                              Append(@, backoff_delay(n, backoff.max_delay))]
                    /\ UNCHANGED <<pc, exitStatus>>
               ELSE /\ backoff' =
                         [backoff EXCEPT
                            !.calls = @ + 1,
                            !.result = IF h = "return" THEN "returned"
                                       ELSE c.result]
                    /\ Leave(c.result)
     ELSE /\ backoff' = [backoff EXCEPT !.result = "IMAPConnectionError"]
          /\ Leave("IMAPConnectionError")
          /\ UNCHANGED <<connLog, imapConn>>
  /\ UNCHANGED <<inbox, flags, marksSeen, smtpConn, messages, message, job,
                 idx, tmpdir, events, exc, now, ctorArgs, ctorResult, failed,
                 smtpAlive>>
  /\ UNCHANGED <<call, ret, cc_addresses, outbox>>

\* main: smtp_service.connect()
SmtpConnect ==
  /\ pc = "smtp_connect"
  /\ \E sc \in SmtpScenarios :
       LET c == smtp_connect(sc) IN
       /\ connLog' = c
       /\ smtpConn' = Assigned(c)
       /\ smtpAlive' = (c.result = "ok")
       /\ pc' = ExitOnError(c.result, "run_daemon")
  /\ exitStatus' = IF pc' = "exited" THEN "sys.exit(1)" ELSE exitStatus
  /\ UNCHANGED <<inbox, flags, marksSeen, imapConn, messages, message, job,
                 idx, tmpdir, events, exc, now, ctorArgs, ctorResult, failed,
                 backoff>>
  /\ UNCHANGED <<call, ret, cc_addresses, outbox>>

\* main: job_processor.run_daemon(); the startup calls are over
RunDaemon ==
  /\ pc = "run_daemon"
  /\ pc' = "loop_top"
  /\ backoff' = NoBackoff
  /\ connLog' = NoConnect
  /\ UNCHANGED <<inbox, flags, marksSeen, imapConn, smtpConn, messages,
                 message, job, idx, tmpdir, events, exc, now, ctorArgs,
                 ctorResult, exitStatus, failed, smtpAlive>>
  /\ UNCHANGED <<call, ret, cc_addresses, outbox>>

\* ------------------------------------------------------- process_next_email
\* sendmail can work: self.connection is set and its session still exists
SmtpUsable == smtpConn /\ smtpAlive

InCycle == {"fetch", "whitelist", "mark_processing", "extract", "render",
            "reply", "mark_completed", "delete", "mark_failed", "notify"}

\* the frame of process_next_email is gone: its locals no longer exist
Unwound ==
  /\ messages' = <<>>
  /\ message' = NoMessage
  /\ job' = NoJob
  /\ idx' = 0

\* run_daemon: while True / try: self.process_next_email()
RunDaemonIter ==
  /\ pc = "loop_top"
  /\ pc' = "fetch"
  /\ UNCHANGED <<failed, backoff, connLog, smtpAlive>>
  /\ UNCHANGED <<inbox, flags, marksSeen, imapConn, smtpConn, messages,
                 message, job, idx, tmpdir, events, exc, now, ctorArgs,
                 ctorResult, exitStatus>>
  /\ UNCHANGED <<call, ret, cc_addresses, outbox>>

last_message(list) == list[Len(list)]

\* message = messages[0]: the uid of the message the cycle works on
first_message(list) == list[1]

\* messages = self.imap_service.fetch_unseen_messages(); a failure is logged
\* by the outer handler and re-raised; message = messages[0]
Fetch ==
  /\ pc = "fetch"
  /\ LET list == UnseenFrom(flags, 1) IN
     \E r \in {"ok", "IMAPError"} :
     \E k \in 0..Len(list) :
       /\ r = "ok" => k = Len(list)
       /\ (r = "IMAPError" /\ ~imapConn) => k = 0
       /\ flags' = FetchedFlags(flags, list, k, marksSeen)
       /\ IF ~imapConn \/ r = "IMAPError"
          THEN /\ events' = Log("fetch", "IMAPError")
               /\ exc' = "IMAPError"
               /\ pc' = "daemon_except"
               /\ UNCHANGED <<messages, message, inbox>>
          ELSE /\ events' = Log("fetch", "ok")
               /\ messages' = list
               /\ exc' = None
               /\ IF list = <<>>
                  THEN /\ pc' = "sleep"
                       /\ UNCHANGED <<message, inbox>>
                  ELSE /\ pc' = "whitelist"
                       /\ LET uid == first_message(list) IN
                          \E m \in (IF inbox[uid] = Unfetched
                                    THEN MessageTypes ELSE {inbox[uid]}) :
                            /\ inbox' = [inbox EXCEPT ![uid] = m]
                            /\ message' = EmailMessage(uid, m)
  /\ UNCHANGED <<failed, backoff, connLog, smtpAlive>>
  /\ UNCHANGED <<marksSeen, imapConn, smtpConn, job, idx, tmpdir, now,
                 ctorArgs, ctorResult, exitStatus>>
  /\ UNCHANGED <<call, ret, cc_addresses, outbox>>

\* the whitelist check; a rejected sender's message is deleted and the call
\* returns, an accepted one gets a fresh ProcessingJob
CheckWhitelist_nodelete ==
  /\ pc = "whitelist"
  /\ IF ~is_whitelisted(message.sender)
     THEN /\ events' = Log("is_whitelisted", "False")
          /\ pc' = "sleep"
          /\ UNCHANGED <<flags, inbox, exc, job, now, messages, message, idx>>
     ELSE \E t \in now..MaxClock :
            /\ now' = t
            /\ job' = ProcessingJob(message.uid, t)
            /\ events' = Log("is_whitelisted", "True")
            /\ pc' = "mark_processing"
            /\ UNCHANGED <<flags, inbox, exc, messages, message, idx>>
  /\ UNCHANGED <<failed, backoff, connLog, smtpAlive>>
  /\ UNCHANGED <<marksSeen, imapConn, smtpConn, tmpdir, ctorArgs, ctorResult,
                 exitStatus>>
  /\ UNCHANGED <<call, ret, cc_addresses, outbox>>

CheckWhitelist ==
  /\ pc = "whitelist"
  /\ IF ~is_whitelisted(message.sender)
     THEN \E r \in DeleteResults :
            /\ flags' = delete_message(flags, message.uid, r)
            /\ inbox' = Forget(inbox, flags')
            /\ events' = events \o <<<<"is_whitelisted", "False">>,
                                     <<"delete", DeleteOutcome(r)>>>>
            /\ IF r = "ok"
               THEN /\ pc' = "sleep"
                    /\ exc' = None
                    /\ UNCHANGED <<messages, message, job, idx>>
               ELSE /\ pc' = "daemon_except"
                    /\ exc' = "IMAPError"
                    /\ Unwound
            /\ UNCHANGED now
     ELSE \E t \in now..MaxClock :
            /\ now' = t
            /\ job' = ProcessingJob(message.uid, t)
            /\ events' = Log("is_whitelisted", "True")
            /\ pc' = "mark_processing"
            /\ UNCHANGED <<flags, inbox, exc, messages, message, idx>>
  /\ UNCHANGED <<failed, backoff, connLog, smtpAlive>>
  /\ UNCHANGED <<marksSeen, imapConn, smtpConn, tmpdir, ctorArgs, ctorResult,
                 exitStatus>>
  /\ UNCHANGED <<call, ret, cc_addresses, outbox>>

\* job.mark_processing()
StartProcessing ==
  /\ pc = "mark_processing"
  /\ job' = mark_processing(job)
  /\ pc' = "extract"
  /\ UNCHANGED <<failed, backoff, connLog, smtpAlive>>
  /\ UNCHANGED <<inbox, flags, marksSeen, imapConn, smtpConn, messages,
                 message, idx, tmpdir, events, exc, now, ctorArgs, ctorResult,
                 exitStatus>>
  /\ UNCHANGED <<call, ret, cc_addresses, outbox>>

\* pdf_attachments = self._extract_pdf_attachments(message); without PDFs the
\* message is deleted and the call returns; otherwise the temporary directory
\* is entered
Extract ==
  /\ pc = "extract"
  /\ LET pdfs == extract_pdf_attachments(message) IN
     \E r \in (IF pdfs = <<>> THEN {"ok"} ELSE {"ok", "ValueError"}) :
       IF r # "ok"
       THEN /\ events' = Log("extract", r)
            /\ exc' = r
            /\ pc' = "mark_failed"
            /\ UNCHANGED <<flags, inbox, job, idx, tmpdir>>
       ELSE IF pdfs = <<>>
       THEN \E d \in DeleteResults :
              /\ flags' = delete_message(flags, message.uid, d)
              /\ inbox' = Forget(inbox, flags')
              /\ events' = events \o <<<<"extract", "ok">>,
                                       <<"delete", DeleteOutcome(d)>>>>
              /\ IF d = "ok"
                 THEN pc' = "sleep" /\ exc' = None
                 ELSE pc' = "mark_failed" /\ exc' = "IMAPError"
              /\ UNCHANGED <<job, idx, tmpdir>>
       ELSE /\ job' = [job EXCEPT !.pdf_attachments = pdfs]
            /\ events' = Log("extract", "ok")
            /\ tmpdir' = TRUE
            /\ idx' = 1
            /\ pc' = "render"
            /\ UNCHANGED <<flags, inbox, exc>>
  /\ UNCHANGED <<failed, backoff, connLog, smtpAlive>>
  /\ UNCHANGED <<marksSeen, imapConn, smtpConn, messages, message, now,
                 ctorArgs, ctorResult, exitStatus>>
  /\ UNCHANGED <<call, ret, cc_addresses, outbox>>

\* one iteration of "for pdf in pdf_attachments": stage the bytes, convert,
\* record the page count, extend job.png_images
Render ==
  /\ pc = "render"
  /\ \E r \in RenderResults :
       IF r.result # "ok"
       THEN /\ events' = Log(IF r.result = "OSError" THEN "stage"
                             ELSE "render", r.result)
            /\ exc' = r.result
            /\ tmpdir' = FALSE
            /\ pc' = "mark_failed"
            /\ UNCHANGED <<job, idx>>
       ELSE /\ events' = Log("render", "ok")
            /\ job' = [job EXCEPT !.pdf_attachments[idx].page_count = r.pages,
                                  !.png_images = @ \o Pages(idx, r.pages)]
            /\ idx' = idx + 1
            /\ pc' = IF idx = Len(job.pdf_attachments) THEN "reply"
                     ELSE "render"
            /\ UNCHANGED <<exc, tmpdir>>
  /\ UNCHANGED <<failed, backoff, connLog, smtpAlive>>
  /\ UNCHANGED <<inbox, flags, marksSeen, imapConn, smtpConn, messages,
                 message, now, ctorArgs, ctorResult, exitStatus>>
  /\ UNCHANGED <<call, ret, cc_addresses, outbox>>

\* self.smtp_service.send_reply_with_attachments(...), then the with-block of
\* the temporary directory is left
SendReply_swallow ==
  /\ pc = "reply"
  /\ \E r \in {"ok", "SMTPError"} :
       /\ events' = Log("reply", IF SmtpUsable THEN r ELSE "SMTPError")
       /\ tmpdir' = FALSE
       /\ outbox' = IF SmtpUsable /\ r = "ok"
                    THEN Append(outbox, send_reply_with_attachments(
                                          message.sender, job.png_images,
                                          cc_addresses))
                    ELSE outbox
       /\ pc' = "mark_completed"
       /\ exc' = None
  /\ UNCHANGED <<failed, backoff, connLog, smtpAlive>>
  /\ UNCHANGED <<inbox, flags, marksSeen, imapConn, smtpConn, messages,
                 message, job, idx, now, ctorArgs, ctorResult, exitStatus>>
  /\ UNCHANGED <<call, ret, cc_addresses>>

SendReply ==
  /\ pc = "reply"
  /\ \E r \in {"ok", "SMTPError"} :
       /\ events' = Log("reply", IF SmtpUsable THEN r ELSE "SMTPError")
       /\ tmpdir' = FALSE
       /\ outbox' = IF SmtpUsable /\ r = "ok"
                    THEN Append(outbox, send_reply_with_attachments(
                                          message.sender, job.png_images,
                                          cc_addresses))
                    ELSE outbox
       /\ IF SmtpUsable /\ r = "ok"
          THEN pc' = "mark_completed" /\ exc' = None
          ELSE pc' = "mark_failed" /\ exc' = "SMTPError"
  /\ UNCHANGED <<failed, backoff, connLog, smtpAlive>>
  /\ UNCHANGED <<inbox, flags, marksSeen, imapConn, smtpConn, messages,
                 message, job, idx, now, ctorArgs, ctorResult, exitStatus>>
  /\ UNCHANGED <<call, ret, cc_addresses>>

\* job.mark_completed()
MarkCompleted ==
  /\ pc = "mark_completed"
  /\ \E t \in now..MaxClock :
       /\ now' = t
       /\ job' = mark_completed(job, t)
  /\ events' = Log("mark_completed", "ok")
  /\ pc' = "delete"
  /\ UNCHANGED <<failed, backoff, connLog, smtpAlive>>
  /\ UNCHANGED <<inbox, flags, marksSeen, imapConn, smtpConn, messages,
                 message, idx, tmpdir, exc, ctorArgs, ctorResult, exitStatus>>
  /\ UNCHANGED <<call, ret, cc_addresses, outbox>>

\* self.imap_service.delete_message(message.uid) on the success path
DeleteOriginal ==
  /\ pc = "delete"
  /\ \E r \in DeleteResults :
       /\ flags' = delete_message(flags, message.uid, r)
       /\ inbox' = Forget(inbox, flags')
       /\ events' = Log("delete", DeleteOutcome(r))
       /\ IF r = "ok"
          THEN pc' = "sleep" /\ exc' = None
          ELSE pc' = "mark_failed" /\ exc' = "IMAPError"
  /\ UNCHANGED <<failed, backoff, connLog, smtpAlive>>
  /\ UNCHANGED <<marksSeen, imapConn, smtpConn, messages, message, job, idx,
                 tmpdir, now, ctorArgs, ctorResult, exitStatus>>
  /\ UNCHANGED <<call, ret, cc_addresses, outbox>>

\* except Exception as e: job.mark_failed(e)
MarkFailed ==
  /\ pc = "mark_failed"
  /\ \E t \in now..MaxClock :
       /\ now' = t
       /\ job' = mark_failed(job, exc, t)
  /\ pc' = "notify"
  /\ failed' = failed \cup {job.email_message}
  /\ UNCHANGED <<backoff, connLog, smtpAlive>>
  /\ UNCHANGED <<inbox, flags, marksSeen, imapConn, smtpConn, messages,
                 message, idx, tmpdir, events, exc, ctorArgs, ctorResult,
                 exitStatus>>
  /\ UNCHANGED <<call, ret, cc_addresses, outbox>>

\* self.smtp_service.send_error_notification(...) inside its own try; its
\* failure is logged; then the error is logged and the call returns
Notify_propagate ==
  /\ pc = "notify"
  /\ \E r \in {"ok", "SMTPError"} :
       /\ events' = Log("notify", IF SmtpUsable THEN r ELSE "SMTPError")
       /\ outbox' = IF SmtpUsable /\ r = "ok"
                    THEN Append(outbox,
                                send_error_notification(message.sender))
                    ELSE outbox
       /\ IF SmtpUsable /\ r = "ok"
          THEN pc' = "sleep" /\ exc' = None
          ELSE pc' = "daemon_except" /\ exc' = "SMTPError"
  /\ UNCHANGED <<failed, backoff, connLog, smtpAlive>>
  /\ UNCHANGED <<inbox, flags, marksSeen, imapConn, smtpConn, messages,
                 message, job, idx, tmpdir, now, ctorArgs, ctorResult,
                 exitStatus>>
  /\ UNCHANGED <<call, ret, cc_addresses>>

Notify ==
  /\ pc = "notify"
  /\ \E r \in {"ok", "SMTPError"} :
       /\ events' = Log("notify", IF SmtpUsable THEN r ELSE "SMTPError")
       /\ outbox' = IF SmtpUsable /\ r = "ok"
                    THEN Append(outbox,
                                send_error_notification(message.sender))
                    ELSE outbox
  /\ pc' = "sleep"
  /\ exc' = None
  /\ UNCHANGED <<failed, backoff, connLog, smtpAlive>>
  /\ UNCHANGED <<inbox, flags, marksSeen, imapConn, smtpConn, messages,
                 message, job, idx, tmpdir, now, ctorArgs, ctorResult,
                 exitStatus>>
  /\ UNCHANGED <<call, ret, cc_addresses>>

KeyboardInterruptRaised_leak ==
  /\ pc \in InCycle \cup {"sleep"}
  /\ exc' = "KeyboardInterrupt"
  /\ events' = Log("signal", pc)
  /\ UNCHANGED tmpdir
  /\ Unwound
  /\ pc' = IF pc = "sleep" THEN "main_except" ELSE "daemon_except"
  /\ UNCHANGED <<failed, backoff, connLog, smtpAlive>>
  /\ UNCHANGED <<inbox, flags, marksSeen, imapConn, smtpConn, now, ctorArgs,
                 ctorResult, exitStatus>>
  /\ UNCHANGED <<call, ret, cc_addresses, outbox>>

\* the interrupt signal arrives: KeyboardInterrupt is raised at the current
\* position; it passes every "except Exception", leaves the with-block, and
\* reaches run_daemon's handlers (in a cycle) or main (during the poll sleep)
KeyboardInterruptRaised ==
  /\ pc \in InCycle \cup {"sleep"}
  /\ exc' = "KeyboardInterrupt"
  /\ events' = Log("signal", pc)
  /\ tmpdir' = FALSE
  /\ Unwound
  /\ pc' = IF pc = "sleep" THEN "main_except" ELSE "daemon_except"
  /\ UNCHANGED <<failed, backoff, connLog, smtpAlive>>
  /\ UNCHANGED <<inbox, flags, marksSeen, imapConn, smtpConn, now, ctorArgs,
                 ctorResult, exitStatus>>
  /\ UNCHANGED <<call, ret, cc_addresses, outbox>>

\* --------------------------------------------------------------- run_daemon
\* an exception left process_next_email: the except clauses of run_daemon are
\* evaluated in order, the first one names IMAPConnectionError
RunDaemonExcept ==
  /\ pc = "daemon_except"
  /\ IF ~NameResolves("IMAPConnectionError")
     THEN /\ exc' = "NameError"
          /\ pc' = "main_except"
          /\ UNCHANGED <<events, imapConn>>
     ELSE IF IsInstance(exc, "IMAPConnectionError")
     THEN \E r \in {"ok", "IMAPAuthenticationError", "IMAPConnectionError"} :
            /\ events' = Log("connect_with_backoff", r)
            /\ imapConn' = TRUE
            /\ exc' = None
            /\ pc' = "sleep"
     ELSE IF IsInstance(exc, "KeyboardInterrupt")
     THEN /\ pc' = "main_except"
          /\ UNCHANGED <<events, imapConn, exc>>
     ELSE /\ exc' = None
          /\ pc' = "sleep"
          /\ UNCHANGED <<events, imapConn>>
  /\ UNCHANGED <<failed, backoff, connLog, smtpAlive>>
  /\ UNCHANGED <<inbox, flags, marksSeen, smtpConn, messages, message, job,
                 idx, tmpdir, now, ctorArgs, ctorResult, exitStatus>>
  /\ UNCHANGED <<call, ret, cc_addresses, outbox>>

\* time.sleep(self.config.polling_interval_seconds); the cycle is over; the
\* SMTP server may drop the idle session meanwhile
Sleep ==
  /\ pc = "sleep"
  /\ pc' = "loop_top"
  /\ Unwound
  /\ events' = <<>>
  /\ outbox' = <<>>
  /\ smtpAlive' \in {smtpAlive, FALSE}
  /\ UNCHANGED <<failed, backoff, connLog>>
  /\ UNCHANGED <<inbox, flags, marksSeen, imapConn, smtpConn, tmpdir, exc,
                 now, ctorArgs, ctorResult, exitStatus>>
  /\ UNCHANGED <<call, ret, cc_addresses>>

\* --------------------------------------------------------------------- main
\* IMAPService.disconnect: close() expunges the flagged messages when it
\* succeeds; every error is ignored; connection = None
imap_disconnect(fl, conn, closeOk) ==
  IF conn /\ closeOk THEN Expunge(fl) ELSE fl

\* run_daemon raised: except KeyboardInterrupt / finally: disconnect both
Main ==
  /\ pc = "main_except"
  /\ \E closeOk \in BOOLEAN :
       /\ flags' = imap_disconnect(flags, imapConn, closeOk)
       /\ inbox' = Forget(inbox, flags')
  /\ events' = events \o <<<<"imap_disconnect", "ok">>,
                           <<"smtp_disconnect", "ok">>>>
  /\ imapConn' = FALSE
  /\ smtpConn' = FALSE
  /\ exitStatus' = IF IsInstance(exc, "KeyboardInterrupt") THEN "clean"
                   ELSE exc
  /\ pc' = "exited"
  /\ smtpAlive' = FALSE
  /\ UNCHANGED <<failed, backoff, connLog>>
  /\ UNCHANGED <<marksSeen, messages, message, job, idx, tmpdir, exc, now,
                 ctorArgs, ctorResult>>
  /\ UNCHANGED <<call, ret, cc_addresses, outbox>>

\* one call of disconnect() on either service
Disconnect ==
  /\ pc = "disconnect"
  /\ Cardinality(Called("imap_disconnect") \cup Called("smtp_disconnect"))
       < MaxDisconnects
  /\ \E svc \in {"imap", "smtp"} : \E o \in SessionOutcomes[svc] :
       LET d == disconnect(svc, IF svc = "imap" THEN imapConn ELSE smtpConn, o)
           name == IF svc = "imap" THEN "imap_disconnect"
                   ELSE "smtp_disconnect"
       IN
       /\ events' = events \o d.calls \o
                      <<<<name, IF d.raised = None THEN "ok" ELSE d.raised>>>>
       /\ imapConn' = IF svc = "imap" THEN d.connection ELSE imapConn
       /\ smtpConn' = IF svc = "smtp" THEN d.connection ELSE smtpConn
  /\ UNCHANGED <<inbox, flags, marksSeen, pc, messages, message, job, idx,
                 tmpdir, exc, now, ctorArgs, ctorResult, exitStatus, failed,
                 backoff, connLog, smtpAlive>>
  /\ UNCHANGED <<call, ret, cc_addresses, outbox>>

\* ProcessingJob(**ctorArgs): the dataclass runs __post_init__
Construct ==
  /\ pc = "construct"
  /\ ctorResult' = post_init(ctorArgs)
  /\ pc' = "constructed"
  /\ UNCHANGED <<failed, backoff, connLog, smtpAlive>>
  /\ UNCHANGED <<inbox, flags, marksSeen, imapConn, smtpConn, messages,
                 message, job, idx, tmpdir, events, exc, now, ctorArgs,
                 exitStatus>>
  /\ UNCHANGED <<call, ret, cc_addresses, outbox>>

\* PDFConverterService().convert_pdf_to_png(pdf_path, prefix, temp_dir)
Convert ==
  /\ pc = "convert_pdf_to_png"
  /\ ret' = convert_pdf_to_png(call)
  /\ pc' = "converted"
  /\ UNCHANGED <<inbox, flags, marksSeen, imapConn, smtpConn, messages,
                 message, job, idx, tmpdir, events, exc, now, ctorArgs,
                 ctorResult, exitStatus, failed, backoff, connLog, smtpAlive,
                 call>>
  /\ UNCHANGED <<cc_addresses, outbox>>

\* Configuration(**call.args)
ConstructConfiguration ==
  /\ pc = "Configuration"
  /\ ret' = Configuration(call.args)
  /\ pc' = "configured"
  /\ UNCHANGED <<inbox, flags, marksSeen, imapConn, smtpConn, messages,
                 message, job, idx, tmpdir, events, exc, now, ctorArgs,
                 ctorResult, exitStatus, failed, backoff, connLog, smtpAlive,
                 call>>
  /\ UNCHANGED <<cc_addresses, outbox>>

\* main: config = Configuration.from_env(); except Exception: sys.exit(1)
LoadConfig ==
  /\ pc = "load_config"
  /\ ret' = from_env(call.args)
  /\ pc' = ExitOnError(ret'.result, "init_services")
  /\ exitStatus' = IF pc' = "exited" THEN "sys.exit(1)" ELSE exitStatus
  /\ UNCHANGED <<inbox, flags, marksSeen, imapConn, smtpConn, messages,
                 message, job, idx, tmpdir, events, exc, now, ctorArgs,
                 ctorResult, failed, backoff, connLog, smtpAlive, call>>
  /\ UNCHANGED <<cc_addresses, outbox>>

\* main: the services are constructed, outside any try; PDFConverterService
\* reads its settings from attributes of config
InitServices ==
  /\ pc = "init_services"
  /\ IF ConverterReads \subseteq ConfigurationFields
     THEN /\ pc' = "connect_with_backoff"
          /\ backoff' = Entered("main", Unlimited,
                                call.args.vars.max_retry_interval_seconds)
          /\ UNCHANGED <<exc, exitStatus>>
     ELSE /\ exc' = "AttributeError"
          /\ exitStatus' = "AttributeError"
          /\ pc' = "exited"
          /\ UNCHANGED backoff
  /\ UNCHANGED <<inbox, flags, marksSeen, imapConn, smtpConn, messages,
                 message, job, idx, tmpdir, events, now, ctorArgs,
                 ctorResult, failed, connLog, smtpAlive, call, ret>>
  /\ UNCHANGED <<cc_addresses, outbox>>

\* WhitelistService(regex_pattern=call.regex_pattern)
ConstructWhitelist ==
  /\ pc = "WhitelistService"
  /\ ret' = WhitelistService(call.regex_pattern)
  /\ pc' = IF ret'.result = "ok" THEN "is_whitelisted" ELSE "raised"
  /\ UNCHANGED <<inbox, flags, marksSeen, imapConn, smtpConn, messages,
                 message, job, idx, tmpdir, events, exc, now, ctorArgs,
                 ctorResult, exitStatus, failed, backoff, connLog, smtpAlive,
                 call>>
  /\ UNCHANGED <<cc_addresses, outbox>>

\* whitelist.is_whitelisted(call.email_address)
IsWhitelisted ==
  /\ pc = "is_whitelisted"
  /\ ret' = WhitelistService_is_whitelisted(call.regex_pattern,
                                            call.email_address)
  /\ pc' = "checked"
  /\ UNCHANGED <<inbox, flags, marksSeen, imapConn, smtpConn, messages,
                 message, job, idx, tmpdir, events, exc, now, ctorArgs,
                 ctorResult, exitStatus, failed, backoff, connLog, smtpAlive,
                 call>>
  /\ UNCHANGED <<cc_addresses, outbox>>

\* the with-block is entered: tempfile.TemporaryDirectory()
EnterStaging ==
  /\ pc = "stage"
  /\ ret' = [result |-> "running", dir |-> {}, page_count |-> <<>>,
             png_images |-> <<>>]
  /\ pc' = IF call.pdf_attachments = <<>> THEN "staged" ELSE "stage_loop"
  /\ UNCHANGED <<inbox, flags, marksSeen, imapConn, smtpConn, messages,
                 message, job, idx, tmpdir, events, exc, now, ctorArgs,
                 ctorResult, exitStatus, failed, backoff, connLog, smtpAlive,
                 call>>
  /\ UNCHANGED <<cc_addresses, outbox>>

\* one pass of "for pdf in pdf_attachments": magick writes the pages of this
\* PDF into the directory, convert_pdf_to_png returns what its glob finds
\* there, the length is recorded and the pages are added to the job
StageAndConvert ==
  /\ pc = "stage_loop"
  /\ LET pdf == call.pdf_attachments[idx + 1]
         prefix == sanitize_filename(pdf.filename)
         written == ret.dir \cup OutputFiles(prefix, pdf.pages)
         png_images == glob(written, prefix)
     IN ret' = [ret EXCEPT
                  !.dir = written,
                  !.page_count = Append(@, Cardinality(png_images)),
                  !.png_images = Append(@, png_images)]
  /\ idx' = idx + 1
  /\ pc' = IF idx' = Len(call.pdf_attachments) THEN "staged" ELSE "stage_loop"
  /\ UNCHANGED <<inbox, flags, marksSeen, imapConn, smtpConn, messages,
                 message, job, tmpdir, events, exc, now, ctorArgs,
                 ctorResult, exitStatus, failed, backoff, connLog, smtpAlive,
                 call>>
  /\ UNCHANGED <<cc_addresses, outbox>>

\* processor._extract_pdf_attachments(message)
ExtractParts ==
  /\ pc = "extract_pdf_attachments"
  /\ ret' = ExtractPdfAttachments(call.parts)
  /\ pc' = "extracted"
  /\ UNCHANGED <<inbox, flags, marksSeen, imapConn, smtpConn, messages,
                 message, job, idx, tmpdir, events, exc, now, ctorArgs,
                 ctorResult, exitStatus, failed, backoff, connLog, smtpAlive,
                 call>>
  /\ UNCHANGED <<cc_addresses, outbox>>

\* imap_service.fetch_unseen_messages()
FetchUnseen ==
  /\ pc = "fetch_unseen_messages"
  /\ ret' = fetch_unseen_messages(call)
  /\ pc' = "fetched"
  /\ UNCHANGED <<inbox, flags, marksSeen, imapConn, smtpConn, messages,
                 message, job, idx, tmpdir, events, exc, now, ctorArgs,
                 ctorResult, exitStatus, failed, backoff, connLog, smtpAlive,
                 call>>
  /\ UNCHANGED <<cc_addresses, outbox>>

Next ==
  \/ ConnectWithBackoff
  \/ SmtpConnect
  \/ RunDaemon
  \/ RunDaemonIter
  \/ Fetch
  \/ CheckWhitelist
  \/ StartProcessing
  \/ Extract
  \/ Render
  \/ SendReply
  \/ MarkCompleted
  \/ DeleteOriginal
  \/ MarkFailed
  \/ Notify
  \/ KeyboardInterruptRaised
  \/ RunDaemonExcept
  \/ Sleep
  \/ Main
  \/ Disconnect
  \/ Construct
  \/ Convert
  \/ ConstructConfiguration
  \/ LoadConfig
  \/ InitServices
  \/ ConstructWhitelist
  \/ IsWhitelisted
  \/ EnterStaging
  \/ StageAndConvert
  \/ ExtractParts
  \/ FetchUnseen

Spec == Init /\ [][Next]_vars

TypeOK ==
  /\ pc \in InCycle \cup {"loop_top", "sleep", "daemon_except", "main_except",
                          "exited", "construct", "constructed",
                          "connect_with_backoff", "smtp_connect",
                          "run_daemon", "returned_to_caller",
                          "disconnect", "convert_pdf_to_png", "converted",
                          "Configuration", "configured", "load_config",
                          "init_services", "WhitelistService",
                          "is_whitelisted", "checked", "raised", "stage",
                          "stage_loop", "staged", "extract_pdf_attachments",
                          "extracted", "fetch_unseen_messages", "fetched"}
  /\ call.op \in {"none", "convert_pdf_to_png", "Configuration", "main",
                  "WhitelistService", "stage", "extract_pdf_attachments",
                  "fetch_unseen_messages"}
  /\ backoff.attempt \in 0..MaxAttempts
  /\ Len(backoff.delays) <= MaxAttempts
  /\ connLog.service \in {"none", "imap", "smtp"}
  /\ now \in 0..MaxClock
  /\ Len(inbox) <= MaxMsgs
  /\ failed \subseteq 1..MaxMsgs
  /\ smtpAlive \in BOOLEAN
  /\ cc_addresses \in CcLists
  /\ \A i \in DOMAIN outbox : outbox[i].kind \in {"reply", "error"}
  /\ \A u \in DOMAIN inbox : inbox[u] \in MessageTypes \cup {Unfetched}

\* ------------------------------------------------------------------ helpers
Signalled == Called("signal") # {}

SignalledInCycle ==
  \E i \in DOMAIN events : events[i][1] = "signal" /\ events[i][2] \in InCycle

PipelineErrors ==
  {<<"stage", "OSError">>, <<"render", "PDFConversionError">>,
   <<"reply", "SMTPError">>}

\* ------------------------------------------------------------------- claims

\* C1: a Job left FAILED has an error recorded, delete_message was never
\* invoked for its message during the cycle, and the message is still in the
\* mailbox.
C1_FailedJobRetained ==
  (job # NoJob /\ job.status = "FAILED") =>
    /\ job.error # None
    /\ Called("delete") = {}
    /\ flags[job.email_message] \in {"unseen", "seen"}

\* C2: for a whitelisted message with PDFs, a delete_message call is preceded
\* by mark_completed, which is preceded by a successful reply, which is
\* preceded by one successful render per attachment, with no failed step in
\* between; after a failed render or reply there is no delete_message call.
C2_SuccessOrder ==
  (job # NoJob /\ job.pdf_attachments # <<>>) =>
    /\ \A k \in Called("delete") :
         /\ \A r \in 1..(k - 1) : events[r][2] \notin DOMAIN ExcParent
         /\ \E i, j \in 1..(k - 1) :
              /\ i < j
              /\ events[i] = <<"reply", "ok">>
              /\ events[j] = <<"mark_completed", "ok">>
              /\ Cardinality({r \in 1..(i - 1) :
                                events[r] = <<"render", "ok">>})
                   = Len(job.pdf_attachments)
    /\ (\E e \in PipelineErrors : Has(e)) => Called("delete") = {}

C2_Witness ==
  /\ pc = "sleep"
  /\ job # NoJob
  /\ job.status = "COMPLETED"
  /\ Len(job.pdf_attachments) = 2
  /\ events[Len(events)] = <<"delete", "ok">>

\* C3: once the whitelist check has rejected the first message's sender,
\* delete_message was called exactly once (and a successful call removed the
\* message), nothing was extracted, rendered, replied or notified, and no Job
\* exists.
C3_RejectedSender ==
  Has(<<"is_whitelisted", "False">>) =>
    /\ job = NoJob
    /\ Cardinality(Called("delete")) = 1
    /\ \A op \in {"extract", "stage", "render", "reply", "notify",
                  "mark_completed"} : Called(op) = {}
    /\ (Has(<<"delete", "ok">>) /\ message # NoMessage) =>
         flags[message.uid] = "expunged"

C3_Witness ==
  /\ pc = "sleep"
  /\ message # NoMessage
  /\ message.sender = "spam@evil.com"
  /\ Has(<<"delete", "ok">>)
  /\ flags[message.uid] = "expunged"

\* C4: once extraction has found no PDF in a whitelisted sender's message,
\* delete_message was invoked, no reply and no error notification is sent
\* whatever the delete call did, and no Job exists.
C4_NoPdfDiscarded ==
  (/\ message # NoMessage
   /\ is_whitelisted(message.sender)
   /\ extract_pdf_attachments(message) = <<>>
   /\ pc \notin {"whitelist", "mark_processing", "extract"}
   /\ ~Signalled) =>
    /\ Called("delete") # {}
    /\ Called("reply") = {}
    /\ Called("notify") = {}
    /\ pc # "notify"
    /\ job = NoJob

\* C5: after an exception in staging, rendering or the success reply, the
\* Job is FAILED with that exception, exactly one error notification is
\* attempted, and process_next_email returns normally (to the poll sleep)
\* whether or not the notification itself raised.
C5_FailureContained ==
  \A i \in DOMAIN events :
    (events[i] \in PipelineErrors /\ ~Signalled) =>
      /\ pc \in {"mark_failed", "notify", "sleep"}
      /\ pc # "mark_failed" =>
           job.status = "FAILED" /\ job.error = events[i][2]
      /\ pc \in {"mark_failed", "notify"} => Called("notify") = {}
      /\ pc = "sleep" => Cardinality(Called("notify")) = 1 /\ exc = None

C5_Witness ==
  /\ pc = "sleep"
  /\ Has(<<"render", "PDFConversionError">>)
  /\ Has(<<"notify", "SMTPError">>)
  /\ job.status = "FAILED"

StatusStep(a, b) ==
  \/ a = b
  \/ a = "PENDING" /\ b = "PROCESSING"
  \/ a = "PROCESSING" /\ b \in {"COMPLETED", "FAILED"}

\* C6: the status of a Job only moves PENDING -> PROCESSING -> COMPLETED or
\* FAILED, and never changes once it is COMPLETED or FAILED.
C6_StatusMonotonic ==
  [][(job # NoJob /\ job' # NoJob) => StatusStep(job.status, job'.status)]_vars

C8_ReconnectAfterFetchFailure ==
  (Has(<<"fetch", "IMAPError">>) /\ pc # "daemon_except") =>
    /\ Called("connect_with_backoff") # {}
    /\ pc \notin {"main_except", "exited"}

\* C9: run_daemon is left only because of the shutdown signal: any other
\* exception escaping a cycle is logged and the loop goes on.
C9_DaemonSurvives ==
  pc \in {"main_except", "exited"} => Signalled

\* C10: a KeyboardInterrupt raised during a cycle reaches main as a
\* KeyboardInterrupt, and main has then disconnected both services.
C10_ShutdownPropagates ==
  (SignalledInCycle /\ pc \in {"main_except", "exited"}) =>
    /\ exc = "KeyboardInterrupt"
    /\ pc = "exited" =>
         /\ Has(<<"imap_disconnect", "ok">>)
         /\ Has(<<"smtp_disconnect", "ok">>)
         /\ ~imapConn
         /\ ~smtpConn

\* C11: an exception leaves process_next_email only when fetching the unread
\* list failed or a shutdown signal arrived; no failure after the fetch (the
\* whitelist check, extraction, rendering, sending, deleting) escapes.
C11_OnlyFetchOrSignalEscapes ==
  pc = "daemon_except" => (Has(<<"fetch", "IMAPError">>) \/ Signalled)

\* a step after the fetch leaves every listed message but the first as it is
OthersUntouched ==
  pc \in InCycle \ {"fetch"} =>
    \A i \in 2..Len(messages) : flags'[messages[i]] = flags[messages[i]]

C13_OthersStayUnread ==
  \A i \in 2..Len(messages) : IsUnseen(flags[messages[i]])

\* C14: a message whose Job ended FAILED is not taken up again by a later
\* cycle of the run and stays in the mailbox while the run lasts.
C14_FailedNotReprocessed ==
  \A u \in failed :
    /\ ~(pc = "whitelist" /\ message.uid = u)
    /\ pc # "exited" => flags[u] # "expunged"

\* C15: the staging directory exists only while its Job is being rendered or
\* replied to; it is gone on every exit of the with-block.
C15_StagingRemoved ==
  tmpdir => (pc \in {"render", "reply"} /\ job # NoJob
             /\ job.status = "PROCESSING")

\* a shutdown signal arrived while the reply was being sent
C15_Witness ==
  pc = "daemon_except" /\ Has(<<"signal", "reply">>) /\ ~tmpdir

\* C16: in connect_with_backoff every attempt that failed with a connection
\* error is followed by exactly one sleep, the k-th of min(60 * 2^(k-1),
\* max_retry_interval_seconds) seconds; with the ceiling at 900 the sleeps
\* are 60, 120, 240, 480, 900, 900, ...; they never decrease and never
\* exceed the ceiling.
C16_BackoffSchedule ==
  LET d == backoff.delays
      done == backoff.result \in {"returned", "IMAPAuthenticationError"}
  IN
  /\ Len(d) = backoff.attempt
  /\ backoff.calls = backoff.attempt + (IF done THEN 1 ELSE 0)
  /\ \A k \in DOMAIN d :
       /\ d[k] = Min(60 * 2^(k - 1), backoff.max_delay)
       /\ d[k] <= backoff.max_delay
       /\ k > 1 => d[k - 1] <= d[k]
       /\ backoff.max_delay = 900 =>
            d[k] = <<60, 120, 240, 480, 900>>[Min(k, 5)]

\* six attempts in a row failed under the default ceiling
C16_Witness ==
  /\ backoff.max_delay = 900
  /\ backoff.delays = <<60, 120, 240, 480, 900, 900>>

\* C17: when connect raises the authentication error inside
\* connect_with_backoff, the call raises it at once: no sleep follows and
\* connect is not called again, whatever max_retries is.
C17_AuthFailureNotRetried ==
  connLog.result = "IMAPAuthenticationError" =>
    /\ pc # "connect_with_backoff"
    /\ backoff.result = "IMAPAuthenticationError"
    /\ backoff.calls = backoff.attempt + 1
    /\ Len(backoff.delays) = backoff.attempt

\* the authentication error came after a failed attempt, with no limit set
C17_Witness ==
  /\ backoff.result = "IMAPAuthenticationError"
  /\ backoff.max_retries = Unlimited
  /\ backoff.attempt >= 1

C19_RetryLimit ==
  LET n == backoff.max_retries IN
  /\ n # Unlimited =>
       /\ backoff.calls <= n
       /\ (backoff.result = "IMAPConnectionError") <=>
            (backoff.result # "running" /\ backoff.attempt = n)
  /\ n = Unlimited => backoff.result # "IMAPConnectionError"
  /\ (backoff.result = "returned" /\ connLog.service = "imap") =>
       connLog.result = "ok"

\* a call limited to two attempts gave up after two connection errors
C19_Witness ==
  /\ backoff.max_retries = 2
  /\ backoff.result = "IMAPConnectionError"
  /\ backoff.calls = 2

\* C20: in connect of either service, a login that the server rejected is
\* the last library call of the connect and the connect raises the service's
\* authentication error.
C20_RejectionEndsConnect ==
  \A i \in DOMAIN connLog.log :
    connLog.log[i] = <<"login", "rejected">> =>
      /\ i = Len(connLog.log)
      /\ connLog.result = (IF connLog.service = "imap"
                           THEN "IMAPAuthenticationError"
                           ELSE "SMTPAuthenticationError")

\* C21: in connect of either service, a transport failure of the implicit-TLS
\* tier is followed by exactly one plaintext session on which STARTTLS is
\* tried and, whatever STARTTLS did, login is attempted; connect returns iff
\* a login succeeded, and raises the connection error iff the plaintext tier
\* failed for a reason other than a rejection of the credentials.
C21_TlsFallback ==
  LET log == connLog.log
      plain == {i \in DOMAIN log : log[i][1] \in {"IMAP4", "SMTP"}}
      tier1Failed ==
        \/ log[1][2] # "ok"
        \/ Len(log) >= 2 /\ log[2][2] \notin {"ok", "rejected"}
      connErr == IF connLog.service = "imap" THEN "IMAPConnectionError"
                 ELSE "SMTPConnectionError"
  IN
  connLog.service # "none" =>
    /\ tier1Failed =>
         /\ Cardinality(plain) = 1
         /\ \A i \in plain :
              log[i][2] = "ok" =>
                (log[i + 1][1] = "starttls" /\ log[i + 2][1] = "login")
    /\ (connLog.result = "ok") <=>
         (\E i \in DOMAIN log : log[i] = <<"login", "ok">>)
    /\ (connLog.result = connErr) <=>
         (/\ plain # {}
          /\ log[Len(log)] \notin {<<"login", "ok">>, <<"login", "rejected">>})

\* C22: disconnect of either service never raises and leaves the connection
\* field None, with no session, a healthy session or one whose close, logout
\* or quit raises; a repeated call makes no library call.
C22_DisconnectIdempotent ==
  pc = "disconnect" =>
    /\ Called("imap_disconnect") # {} => ~imapConn
    /\ Called("smtp_disconnect") # {} => ~smtpConn
    /\ \A j \in Called("imap_disconnect") \cup Called("smtp_disconnect") :
         /\ events[j][2] = "ok"
         /\ (\E i \in 1..(j - 1) : events[i][1] = events[j][1]) =>
              events[j - 1][1] \notin {"close", "logout", "quit"}

\* a session whose close() raised was disconnected twice
C22_Witness ==
  /\ pc = "disconnect"
  /\ events = <<<<"close", "OSError">>, <<"imap_disconnect", "ok">>,
                <<"imap_disconnect", "ok">>>>
  /\ ~imapConn

\* a cycle that an exception other than the shutdown signal has left is
\* followed by the poll sleep, and a cycle starts only after the poll sleep
SleepAfterCycle ==
  /\ (pc = "daemon_except" /\ exc # "KeyboardInterrupt") => pc' = "sleep"
  /\ (pc' = "loop_top" /\ pc # "loop_top") => pc \in {"sleep", "run_daemon"}

\* C23: whatever the outcome of a cycle (no-op, success, failed job, logged
\* exception, connection loss with a reconnect attempt), run_daemon sleeps
\* the poll interval once before the next invocation of process_next_email.
C23_OneSleepBetweenCycles == [][SleepAfterCycle]_vars

\* C24: after a connection loss reached run_daemon the reconnect is attempted
\* and, whatever its outcome, the daemon goes on to the poll sleep instead of
\* terminating.
C24_ReconnectFailureContinues ==
  (Has(<<"fetch", "IMAPError">>) /\ pc # "daemon_except") =>
    /\ pc = "sleep"
    /\ Called("connect_with_backoff") # {}

\* C25: the daemon survives the loss of either session: a fetch that failed
\* because the IMAP session was lost does not end run_daemon, and the success
\* reply never fails because the SMTP session was lost during an earlier poll
\* sleep (the session has been re-established by then).
C25_SurvivesSessionLoss ==
  /\ (Has(<<"fetch", "IMAPError">>) /\ pc # "daemon_except") =>
       pc \notin {"main_except", "exited"}
  /\ (pc = "mark_failed" /\ Has(<<"reply", "SMTPError">>)) => smtpAlive

\* the subprocess of the call ran and exited with a non-zero code
NonZeroExit ==
  /\ pc = "converted"
  /\ call.exists
  /\ call.proc.run = "completed"
  /\ call.proc.returncode # 0

\* the lower-cased words of the stderr of the call
StderrLower == {Lower(call.proc.stderr[i]) : i \in DOMAIN call.proc.stderr}

\* C26: on a non-zero exit convert_pdf_to_png raises PDFPasswordProtectedError
\* when the lower-cased stderr contains "password" or "encrypted"; otherwise
\* PDFCorruptedError when it contains "corrupt", "invalid" or "error";
\* otherwise PDFConversionError; each carries the stderr as it was written.
C26_StderrClassification ==
  NonZeroExit =>
    /\ ret.result =
         IF StderrLower \cap {"password", "encrypted"} # {}
         THEN "PDFPasswordProtectedError"
         ELSE IF StderrLower \cap {"corrupt", "invalid", "error"} # {}
         THEN "PDFCorruptedError"
         ELSE "PDFConversionError"
    /\ ret.text = call.proc.stderr
    /\ ret.pages = <<>>

\* a stderr text of both groups, not in lower case, is password-protected
C26_Witness ==
  /\ NonZeroExit
  /\ call.proc.stderr = <<"Error", "ENCRYPTED">>
  /\ ret.result = "PDFPasswordProtectedError"

C28_PagesOnlyAfterCleanRun ==
  pc = "converted" =>
    /\ ret.result = "ok" =>
         /\ call.exists
         /\ call.proc.run = "completed"
         /\ call.proc.returncode = 0
         /\ call.dir.files # {}
         /\ ret.pages # <<>>
    /\ ~call.exists =>
         ret.result = "PDFConversionError" /\ ~ret.invoked
    /\ (\/ call.proc.run \in {"TimeoutExpired", "FileNotFoundError"}
        \/ call.proc.returncode # 0
        \/ call.dir.files = {}) =>
         ret.result # "ok" /\ ret.pages = <<>>

\* the input is missing while the tool and stale output files are there
C28_Witness ==
  /\ pc = "converted"
  /\ ~call.exists
  /\ call.proc.run = "completed"
  /\ call.proc.returncode = 0
  /\ call.dir.files # {}
  /\ call.dir.empty = {}
  /\ ret.result = "PDFConversionError"
  /\ ~ret.invoked

\* how the process ends: main returned, or sys.exit(1), or an exception that
\* nothing caught
ExitCode == IF exitStatus = "clean" THEN 0 ELSE 1

\* one of the three fatal startup failures of main has happened
StartupFailed ==
  \/ call.op = "main" /\ ret.result = "ValueError"
  \/ backoff.caller = "main" /\ backoff.result \notin {"running", "returned"}
  \/ connLog.service = "smtp" /\ connLog.result # "ok"

\* C29: when loading the configuration, the initial IMAP connection or the
\* initial SMTP connection fails, main exits with code 1 and no polling cycle
\* has run; when the daemon loop was ended by the shutdown signal, main has
\* disconnected both services and ends with exit code 0.
C29_ExitCodes ==
  /\ StartupFailed =>
       /\ pc = "exited"
       /\ ExitCode = 1
       /\ events = <<>>
  /\ (Signalled /\ pc = "exited") =>
       /\ Has(<<"imap_disconnect", "ok">>)
       /\ Has(<<"smtp_disconnect", "ok">>)
       /\ ExitCode = 0

\* every field but the two intervals has a valid value
OthersValid(a) ==
  /\ a.blank = {}
  /\ a.imap_port \in 1..65535
  /\ a.smtp_port \in 1..65535
  /\ a.regex_ok

\* C30: with the other fields valid, Configuration(...) raises exactly when
\* polling_interval_seconds < 10 or max_retry_interval_seconds <
\* polling_interval_seconds; every constructed configuration has
\* 10 <= polling_interval_seconds <= max_retry_interval_seconds.
C30_IntervalValidation ==
  pc = "configured" =>
    LET p == call.args.polling_interval_seconds
        m == call.args.max_retry_interval_seconds
    IN
    /\ OthersValid(call.args) =>
         ((ret.result = "ValueError") <=> (p < 10 \/ m < p))
    /\ ret.result = "ok" => (10 <= p /\ p <= m)

\* both intervals at the floor: the smallest configuration that is accepted
C30_Witness ==
  /\ pc = "configured"
  /\ OthersValid(call.args)
  /\ call.args.polling_interval_seconds = 10
  /\ call.args.max_retry_interval_seconds = 10
  /\ ret.result = "ok"

\* the positions of the tokens of the pattern that are not "*"
Atoms(pattern) == {i \in DOMAIN pattern : pattern[i] # "*"}

\* the lengths k such that the tokens of the pattern before token i match the
\* first k characters of the address exactly
RECURSIVE PrefixLengths(_, _, _)
PrefixLengths(pattern, i, address) ==
  IF \A h \in Atoms(pattern) : h >= i THEN {0}
  ELSE LET a == CHOOSE h \in Atoms(pattern) :
                  h < i /\ \A g \in Atoms(pattern) : g < i => g <= h
           before == PrefixLengths(pattern, a, address)
           starred == a < Len(pattern) /\ pattern[a + 1] = "*"
       IN {k \in 0..Len(address) :
             \E b \in before :
               /\ b <= k
               /\ starred \/ k = b + 1
               /\ \A j \in (b + 1)..k : TokenMatches(pattern[a], address[j])}

\* C31: is_whitelisted returns False for the empty address whatever the
\* pattern is, and otherwise True exactly when the pattern matches some
\* prefix of the address, from its first character on; a pattern that does
\* not compile makes the construction raise ValueError, and no check is made.
C31_MatchAtStart ==
  /\ pc = "checked" =>
       (ret.result = "True") <=>
         /\ call.email_address # <<>>
         /\ PrefixLengths(call.regex_pattern, Len(call.regex_pattern) + 1,
                          call.email_address) # {}
  /\ (call.op = "WhitelistService" /\ re_error(call.regex_pattern)) =>
       (pc \in {"WhitelistService", "raised"}
        /\ (pc = "raised" => ret.result = "ValueError"))
  /\ pc = "raised" => re_error(call.regex_pattern)

\* the pattern "b" occurs in "ab" but not at its start: rejected
C31_Witness ==
  /\ pc = "checked"
  /\ call.regex_pattern = <<"b">>
  /\ call.email_address = <<"a", "b">>
  /\ ret.result = "False"

\* C32: when the loop over the attachments of a job is done, the page count
\* of each attachment is the number of pages of that PDF, the pages added for
\* it are the files written for it, and no file is among the pages of two
\* attachments.
C32_PagesPerAttachment ==
  pc = "staged" =>
    /\ \A i \in DOMAIN call.pdf_attachments :
         /\ ret.page_count[i] = call.pdf_attachments[i].pages
         /\ ret.png_images[i] =
              OutputFiles(sanitize_filename(call.pdf_attachments[i].filename),
                          call.pdf_attachments[i].pages)
    /\ \A i \in DOMAIN ret.png_images : \A j \in DOMAIN ret.png_images :
         i # j => ret.png_images[i] \cap ret.png_images[j] = {}

\* the success replies among the mails of this cycle
Replies == {i \in DOMAIN outbox : outbox[i].kind = "reply"}

RECURSIVE SumPageCounts(_)
SumPageCounts(pdfs) ==
  IF pdfs = <<>> THEN 0
  ELSE pdfs[1].page_count + SumPageCounts(Tail(pdfs))

\* C33: when the Job is COMPLETED, exactly one success reply was sent in the
\* cycle; its recipients are the sender of the message and then every address
\* of config.cc_addresses; its attachments are the pages of the Job, as many
\* as the page counts of the attachments add up to; and convert_pdf_to_png
\* was called once per extracted attachment.
C33_OneReplyWithAllPages ==
  (job # NoJob /\ job.status = "COMPLETED") =>
    /\ Cardinality(Replies) = 1
    /\ \A i \in Replies :
         /\ outbox[i].to = message.sender
         /\ outbox[i].recipients = <<message.sender>> \o cc_addresses
         /\ outbox[i].cc_header = cc_addresses
         /\ outbox[i].attachments = job.png_images
         /\ Len(outbox[i].attachments) = SumPageCounts(job.pdf_attachments)
    /\ Cardinality(Called("render")) = Len(job.pdf_attachments)

\* a completed Job with two attachments and a copy recipient
C33_Witness ==
  /\ job # NoJob
  /\ job.status = "COMPLETED"
  /\ Len(job.pdf_attachments) = 2
  /\ cc_addresses # <<>>
  /\ Len(outbox) = 1
  /\ Len(outbox[1].recipients) = 2
  /\ Len(outbox[1].attachments) >= 3

\* the parts of the call that are attachments with a PDF name, in whatever
\* case, and a non-empty payload
PdfParts ==
  {i \in DOMAIN call.parts :
     /\ call.parts[i].disposition = "attachment"
     /\ call.parts[i].extension \in {".pdf", ".PDF"}
     /\ call.parts[i].size > 0}

\* the list returned names exactly the parts of PdfParts, in part order
ReturnsPdfParts ==
  /\ ret.result = "ok"
  /\ {ret.pdf_attachments[k].part : k \in DOMAIN ret.pdf_attachments}
       = PdfParts
  /\ Len(ret.pdf_attachments) = Cardinality(PdfParts)
  /\ \A k \in DOMAIN ret.pdf_attachments : \A l \in DOMAIN ret.pdf_attachments :
       k < l => ret.pdf_attachments[k].part < ret.pdf_attachments[l].part

\* C34 as stated: _extract_pdf_attachments never raises and returns, in part
\* order, exactly the parts that are attachments named *.pdf (in any case)
\* with a non-empty payload.
C34_ExactlyPdfParts ==
  pc = "extracted" => ReturnsPdfParts

\* C34: _extract_pdf_attachments returns, in part order, exactly the
\* attachments named *.pdf (in any case) with a non-empty payload when none of
\* them is larger than 100 MB, and raises ValueError when one of them is.
C34_ExactlyPdfPartsWithinLimit ==
  pc = "extracted" =>
    IF \A i \in PdfParts : call.parts[i].size <= SizeLimit
    THEN ReturnsPdfParts
    ELSE ret.result = "ValueError"

\* an inline PDF is skipped and an attachment named in upper case is returned
C34_Witness ==
  /\ pc = "extracted"
  /\ Len(call.parts) = 2
  /\ call.parts[1] = [disposition |-> "inline", extension |-> ".pdf",
                      size |-> 1]
  /\ call.parts[2] = [disposition |-> "attachment", extension |-> ".PDF",
                      size |-> 1]
  /\ ret.result = "ok"
  /\ Len(ret.pdf_attachments) = 1
  /\ ret.pdf_attachments[1].part = 2

\* the call cannot complete: there is no session, the mailbox was not
\* selected, the search failed, or fetching or parsing some message raised
FetchBroken ==
  \/ ~call.connection
  \/ call.select # "OK"
  \/ call.search # "OK"
  \/ \E i \in DOMAIN call.uids : call.uids[i] \in {"abort", "ValueError"}

\* C35: fetch_unseen_messages leaves out a message whose fetch answered with
\* a status other than OK and returns the others in search order; without a
\* connection, after a failed search, or when fetching or parsing any message
\* raises, it raises IMAPError and returns nothing.
C35_SkipOrFailWhole ==
  pc = "fetched" =>
    IF FetchBroken
    THEN ret.result = "IMAPError" /\ ret.messages = <<>>
    ELSE /\ ret.result = "ok"
         /\ {ret.messages[k] : k \in DOMAIN ret.messages}
              = {i \in DOMAIN call.uids : call.uids[i] = "OK"}
         /\ \A k \in DOMAIN ret.messages : \A l \in DOMAIN ret.messages :
              k < l => ret.messages[k] < ret.messages[l]

\* the first message's fetch answered NO: the second one is returned alone
C35_Witness ==
  /\ pc = "fetched"
  /\ call.connection
  /\ call.uids = <<"NO", "OK">>
  /\ ret.result = "ok"
  /\ ret.messages = <<2>>

Notifications == {i \in DOMAIN outbox : outbox[i].kind = "error"}

\* the three ways a cycle that looked at a message may end
Discarded == Has(<<"delete", "ok">>) /\ outbox = <<>>

Completed == Replies # {} /\ Has(<<"delete", "ok">>)

Failed == Called("notify") # {} /\ ~Has(<<"delete", "ok">>)

\* C36: within one cycle the sender never gets both a success reply and an
\* error notification, no error notification is sent for a message deleted in
\* that cycle, and a cycle that found unread mail ends in exactly one of
\* Discarded, Completed and Failed.
C36_ExclusiveOutcomes ==
  /\ ~(Replies # {} /\ Notifications # {})
  /\ Notifications # {} => ~Has(<<"delete", "ok">>)
  /\ (pc = "sleep" /\ Called("is_whitelisted") # {}) =>
       /\ Discarded \/ Completed \/ Failed
       /\ ~(Discarded /\ Completed)
       /\ ~(Discarded /\ Failed)
       /\ ~(Completed /\ Failed)

\* C37: when process_next_email returns normally, the Job it created is
\* COMPLETED or FAILED, never PENDING or PROCESSING.
C37_TerminalOnReturn ==
  (pc = "sleep" /\ job # NoJob) => job.status \in {"COMPLETED", "FAILED"}

\* C38: a connection field that is set holds a session whose login succeeded:
\* after connect() raised a connection or authentication error the field of
\* that service is None.
C38_ConnectionIsLoggedIn ==
  /\ (connLog.service = "imap" /\ connLog.result # "ok") => ~imapConn
  /\ (connLog.service = "smtp" /\ connLog.result # "ok") => ~smtpConn

\* the sessions a connect() call opened / the calls that closed a session
Opened(log) ==
  {i \in DOMAIN log : /\ log[i][1] \in {"IMAP4_SSL", "IMAP4", "SMTP_SSL", "SMTP"}
                      /\ log[i][2] = "ok"}

Closes(log) ==
  {i \in DOMAIN log : log[i][1] \in {"close", "logout", "quit", "shutdown"}}

\* the session the service held when connect() was entered
Held(svc) == IF (IF svc = "imap" THEN imapConn ELSE smtpConn) THEN 1 ELSE 0

\* C39: a service never has more than one open session: each time connect()
\* opens a session (second tier after the first, a retry of
\* connect_with_backoff, a reconnect), the session held before was closed.
C39_OneOpenSession ==
  [][(connLog' # connLog /\ connLog'.service # "none") =>
       /\ Held(connLog'.service) + Cardinality(Opened(connLog'.log))
            - Cardinality(Closes(connLog'.log)) <= 1
       /\ \A i \in Opened(connLog'.log) : \A j \in Opened(connLog'.log) :
            i < j => \E k \in Closes(connLog'.log) : i < k /\ k < j]_vars

====
